---- MODULE Spec2Model ----
(***************************************************************************)
(* Route construction and incident re-optimisation of the logistics        *)
(* backend (controllers/optimization.js, services/trafficAI.js) and the    *)
(* incident buttons of the detail page (pages/OptimizationDetail.js).      *)
(*                                                                         *)
(* Units.  Distances are metres (the matrix service answers in metres and  *)
(* the code divides by 1000), rounded stop distances are hundredths of a   *)
(* kilometre (toFixed(2)).  Matrix durations are half minutes, the traffic *)
(* multiplier is counted in halves (2 = 1.0, 3 = 1.5), so an adjusted      *)
(* duration is a number of quarter minutes; rounded durations are minutes. *)
(***************************************************************************)
EXTENDS Integers, Sequences, FiniteSets, TLC

\* ---------------------------------------------------------------- bounds
NumLocs == 4
MaxDemand == 2
MaxCapacity == 2
MaxCount == 2

\* ------------------------------------------------------ program constants
SPEED_KMH == 60
SERVICE_TIME_MINUTES == 15
DefaultDelay == 60
MinDelay == 30
MaxDelay == 300
MaxLocations == 100
MaxVehicles == 20

LocIds == 1..NumLocs
\* The stored location that is flagged isDepot: the first one.
DepotId == CHOOSE i \in LocIds : \A j \in LocIds : i <= j
\* A value that may be null is a sequence of at most one element.
NULL == <<>>
Some(x) == <<x>>
Val(o) == o[1]

Abs(x) == IF x < 0 THEN -x ELSE x

RECURSIVE SumSeq(_)
SumSeq(s) == IF s = <<>> THEN 0 ELSE Head(s) + SumSeq(Tail(s))

Range(s) == {s[i] : i \in 1..Len(s)}

\* Coordinates of the stored locations (even, so that midpoints are whole).
Latitude(id) == CASE id = 1 -> 2 [] id % 4 = 2 -> 2 [] id % 4 = 3 -> 4
                  [] id % 4 = 0 -> 2 [] OTHER -> 6
Longitude(id) == CASE id = 1 -> 2 [] id % 4 = 2 -> 4 [] id % 4 = 3 -> 2
                   [] id % 4 = 0 -> 0 [] OTHER -> 2

\* Great-circle distance of two coordinates, in metres; a step of two
\* between the coordinates above is 5 km.
calculateDistance(lat1, lon1, lat2, lon2) ==
    2500 * (Abs(lat2 - lat1) + Abs(lon2 - lon1))

\* Fallback matrix: straight distance times ROAD_FACTOR (1.4), and the time
\* it takes at SPEED_KMH (here in half minutes); zero on the diagonal.
FallbackRoadDist(a, b) ==
    (calculateDistance(a.latitude, a.longitude, b.latitude, b.longitude) * 14) \div 10

calculateFallbackMatrix(locations) ==
    [distanceMatrix |-> [i \in 1..Len(locations) |-> [j \in 1..Len(locations) |->
                            IF i = j THEN 0
                            ELSE FallbackRoadDist(locations[i], locations[j])]],
     durationMatrix |-> [i \in 1..Len(locations) |-> [j \in 1..Len(locations) |->
                            IF i = j THEN 0
                            ELSE (FallbackRoadDist(locations[i], locations[j]) * 60 * 2)
                                     \div (SPEED_KMH * 1000)]],
     success |-> FALSE]

\* What the live matrix service reports for a pair of coordinates: directed
\* road metres and seconds (one-way streets make it asymmetric).
LiveMeters(a, b) ==
    IF a.id = b.id THEN 0
    ELSE calculateDistance(a.latitude, a.longitude, b.latitude, b.longitude)
         + 2000 + 1234 * a.id - 385 * b.id
LiveSeconds(a, b) ==
    IF a.id = b.id THEN 0
    ELSE 30 * (2 * Abs(a.id - b.id) + 5 * a.id + (IF a.id < b.id THEN 3 ELSE 0))

\* Outcomes of the matrix request.
RoadOutcomes == {"noToken", "notOk", "invalid", "error", "live"}

\* getRoadMatrix without the test of the response status.
getRoadMatrixNoStatusTest(locations, outcome) ==
    IF outcome \notin {"live", "notOk"} THEN NULL
    ELSE Some([distanceMatrix |-> [i \in 1..Len(locations) |-> [j \in 1..Len(locations) |->
                                 LiveMeters(locations[i], locations[j])]],
          durationMatrix |-> [i \in 1..Len(locations) |-> [j \in 1..Len(locations) |->
                                 LiveSeconds(locations[i], locations[j]) \div 30]],
          success |-> TRUE])

\* getRoadMatrix: null unless the service answered with both matrices.
getRoadMatrix(locations, outcome) ==
    IF outcome # "live" THEN NULL
    ELSE Some([distanceMatrix |-> [i \in 1..Len(locations) |-> [j \in 1..Len(locations) |->
                                 LiveMeters(locations[i], locations[j])]],
          durationMatrix |-> [i \in 1..Len(locations) |-> [j \in 1..Len(locations) |->
                                 LiveSeconds(locations[i], locations[j]) \div 30]],
          success |-> TRUE])

\* ------------------------------------------------------ Geometry Provider
\* What the directions service does with one request: the answer to the
\* request carrying the exclusion, and the answer to the plain request.
\* "path" is a drivable path, "empty" a success without routes, "notOk" a
\* non-success status, "error" a transport error.
GeoAnswers == {"path", "empty", "notOk", "error"}

\* The coordinates of a drivable path through the stops: the stops' own
\* [lng, lat] points, with one more point after the first when the path goes
\* around the excluded point.
Point(lng, lat) == <<lng, lat>>
Path(stops, detour) ==
    LET direct == [i \in 1..Len(stops) |-> Point(stops[i].longitude, stops[i].latitude)]
    IN IF detour
       THEN <<direct[1], Point(direct[1][1] + 1, direct[1][2] + 1)>> \o Tail(direct)
       ELSE direct

Truthy(n) == n # 0

\* getRouteGeometry(stops, incidentLocation) under a service behaviour
\* geo = [token, first, second, detour].
getRouteGeometry(stops, incidentLocation, geo) ==
    LET exclude == incidentLocation # NULL
                   /\ Truthy(Val(incidentLocation).latitude)
                   /\ Truthy(Val(incidentLocation).longitude)
    IN IF ~geo.token \/ Len(stops) < 2 THEN NULL
       ELSE CASE geo.first = "error" -> NULL
              [] geo.first = "notOk" ->
                   IF incidentLocation # NULL /\ geo.second = "path"
                   THEN Some(Path(stops, FALSE))
                   ELSE NULL
              [] geo.first = "path" -> Some(Path(stops, exclude /\ geo.detour))
              [] OTHER -> NULL

\* The requests getRouteGeometry sends, in order, each with whether its URL
\* carries the exclude parameter: none without a token or a second stop, a
\* second one only in the branch of a non-success status, never after a
\* fetch that threw.
getRouteGeometryRequests(stops, incidentLocation, geo) ==
    LET exclude == incidentLocation # NULL
                   /\ Truthy(Val(incidentLocation).latitude)
                   /\ Truthy(Val(incidentLocation).longitude)
    IN IF ~geo.token \/ Len(stops) < 2 THEN <<>>
       ELSE IF geo.first = "notOk" /\ incidentLocation # NULL
       THEN <<[exclude |-> exclude], [exclude |-> FALSE]>>
       ELSE <<[exclude |-> exclude]>>

\* ---------------------------------------------------------- Route Builder
\* JavaScript's  x || d  on numbers (a missing number counts as 0).
OrElse(x, d) == IF Truthy(x) THEN x ELSE d

\* Math.round of q quarter minutes, in minutes.
RoundQuarter(q) == (q + 2) \div 4

\* parseFloat((m / 1000).toFixed(2)) of m metres, in hundredths of a km.
ToFixed2(m) == (m + 5) \div 10

\* Expand vehicles by count: one slot per unit of count.
RECURSIVE ExpandVehicles(_)
ExpandVehicles(vehicles) ==
    IF vehicles = <<>> THEN <<>>
    ELSE LET v == Head(vehicles)
             count == OrElse(v.count, 1)
         IN [i \in 1..count |-> [id |-> v.id, capacity |-> OrElse(v.capacity, 0)]]
            \o ExpandVehicles(Tail(vehicles))

\* locationIndexMap: the index of a location id in the location list (the
\* last one, as later entries overwrite earlier ones).
LocationIndex(locations, id) ==
    CHOOSE i \in 1..Len(locations) :
        /\ locations[i].id = id
        /\ \A j \in 1..Len(locations) : locations[j].id = id => j <= i

\* ScanNearest leaving the loop at the first location that does not fit.
RECURSIVE ScanNearestStopsAtMisfit(_, _, _, _, _, _, _, _)
ScanNearestStopsAtMisfit(nonDepot, k, best, bestD, assigned, remaining, currentIndex, ctx) ==
    IF k > Len(nonDepot) THEN best
    ELSE LET loc == nonDepot[k]
             locIndex == LocationIndex(ctx.locations, loc.id)
             d == ctx.distanceMatrix[currentIndex][locIndex]
         IN IF loc.id \in assigned
               THEN ScanNearestStopsAtMisfit(nonDepot, k + 1, best, bestD, assigned, remaining, currentIndex, ctx)
            ELSE IF OrElse(loc.demand, 0) > remaining
               THEN best
            ELSE IF best = 0 \/ d < bestD
               THEN ScanNearestStopsAtMisfit(nonDepot, k + 1, k, d, assigned, remaining, currentIndex, ctx)
            ELSE ScanNearestStopsAtMisfit(nonDepot, k + 1, best, bestD, assigned, remaining, currentIndex, ctx)

\* ScanNearest comparing with <= (the last of the nearest wins).
RECURSIVE ScanNearestLastOnTie(_, _, _, _, _, _, _, _)
ScanNearestLastOnTie(nonDepot, k, best, bestD, assigned, remaining, currentIndex, ctx) ==
    IF k > Len(nonDepot) THEN best
    ELSE LET loc == nonDepot[k]
             locIndex == LocationIndex(ctx.locations, loc.id)
             d == ctx.distanceMatrix[currentIndex][locIndex]
         IN IF loc.id \in assigned
               THEN ScanNearestLastOnTie(nonDepot, k + 1, best, bestD, assigned, remaining, currentIndex, ctx)
            ELSE IF OrElse(loc.demand, 0) > remaining
               THEN ScanNearestLastOnTie(nonDepot, k + 1, best, bestD, assigned, remaining, currentIndex, ctx)
            ELSE IF best = 0 \/ d <= bestD
               THEN ScanNearestLastOnTie(nonDepot, k + 1, k, d, assigned, remaining, currentIndex, ctx)
            ELSE ScanNearestLastOnTie(nonDepot, k + 1, best, bestD, assigned, remaining, currentIndex, ctx)

\* ScanNearest without the capacity test.
RECURSIVE ScanNearestNoCapacity(_, _, _, _, _, _, _, _)
ScanNearestNoCapacity(nonDepot, k, best, bestD, assigned, remaining, currentIndex, ctx) ==
    IF k > Len(nonDepot) THEN best
    ELSE LET loc == nonDepot[k]
             locIndex == LocationIndex(ctx.locations, loc.id)
             d == ctx.distanceMatrix[currentIndex][locIndex]
         IN IF loc.id \in assigned
               THEN ScanNearestNoCapacity(nonDepot, k + 1, best, bestD, assigned, remaining, currentIndex, ctx)
            ELSE IF best = 0 \/ d < bestD
               THEN ScanNearestNoCapacity(nonDepot, k + 1, k, d, assigned, remaining, currentIndex, ctx)
            ELSE ScanNearestNoCapacity(nonDepot, k + 1, best, bestD, assigned, remaining, currentIndex, ctx)

\* ScanNearest without the test of the assigned set.
RECURSIVE ScanNearestKeepsAssigned(_, _, _, _, _, _, _, _)
ScanNearestKeepsAssigned(nonDepot, k, best, bestD, assigned, remaining, currentIndex, ctx) ==
    IF k > Len(nonDepot) THEN best
    ELSE LET loc == nonDepot[k]
             locIndex == LocationIndex(ctx.locations, loc.id)
             d == ctx.distanceMatrix[currentIndex][locIndex]
         IN IF OrElse(loc.demand, 0) > remaining
               THEN ScanNearestKeepsAssigned(nonDepot, k + 1, best, bestD, assigned, remaining, currentIndex, ctx)
            ELSE IF best = 0 \/ d < bestD
               THEN ScanNearestKeepsAssigned(nonDepot, k + 1, k, d, assigned, remaining, currentIndex, ctx)
            ELSE ScanNearestKeepsAssigned(nonDepot, k + 1, best, bestD, assigned, remaining, currentIndex, ctx)

\* The inner for-loop: scan nonDepot from position k on, keeping the best
\* candidate so far (best = 0 stands for null, whose bestD is Infinity).
RECURSIVE ScanNearest(_, _, _, _, _, _, _, _)
ScanNearest(nonDepot, k, best, bestD, assigned, remaining, currentIndex, ctx) ==
    IF k > Len(nonDepot) THEN best
    ELSE LET loc == nonDepot[k]
             locIndex == LocationIndex(ctx.locations, loc.id)
             d == ctx.distanceMatrix[currentIndex][locIndex]
         IN IF loc.id \in assigned
               THEN ScanNearest(nonDepot, k + 1, best, bestD, assigned, remaining, currentIndex, ctx)
            ELSE IF OrElse(loc.demand, 0) > remaining
               THEN ScanNearest(nonDepot, k + 1, best, bestD, assigned, remaining, currentIndex, ctx)
            ELSE IF best = 0 \/ d < bestD
               THEN ScanNearest(nonDepot, k + 1, k, d, assigned, remaining, currentIndex, ctx)
            ELSE ScanNearest(nonDepot, k + 1, best, bestD, assigned, remaining, currentIndex, ctx)

\* The while(true) loop of one vehicle slot: the chosen locations in order,
\* the capacity left and the assigned set afterwards.
RECURSIVE SelectStops(_, _, _, _, _, _)
SelectStops(nonDepot, picked, remaining, assigned, currentIndex, ctx) ==
    LET best == ScanNearest(nonDepot, 1, 0, 0, assigned, remaining, currentIndex, ctx)
    IN IF best = 0
       THEN [picked |-> picked, remaining |-> remaining, assigned |-> assigned]
       ELSE SelectStops(nonDepot,
                        Append(picked, nonDepot[best]),
                        remaining - OrElse(nonDepot[best].demand, 0),
                        assigned \cup {nonDepot[best].id},
                        LocationIndex(ctx.locations, nonDepot[best].id),
                        ctx)

\* One entry of rtStops as pushed by the loops, before annotation.
RawStop(loc, order) ==
    [locationId |-> loc.id, latitude |-> loc.latitude, longitude |-> loc.longitude,
     demand |-> OrElse(loc.demand, 0), order |-> order]

\* RawStops without the closing depot stop.
RawStopsNoReturn(depot, picked) ==
    <<RawStop(depot, 0)>>
    \o [i \in 1..Len(picked) |-> RawStop(picked[i], i)]

\* rtStops of a slot that picked at least one location: depot, the picked
\* locations, closing depot; order counts from 0.
RawStops(depot, picked) ==
    <<RawStop(depot, 0)>>
    \o [i \in 1..Len(picked) |-> RawStop(picked[i], i)]
    \o <<RawStop(depot, Len(picked) + 1)>>

\* distanceFromPrev and timeFromPrev of stop i (metres, quarter minutes).
LegDistance(rtStops, i, ctx) ==
    IF i = 1 THEN 0
    ELSE ctx.distanceMatrix[LocationIndex(ctx.locations, rtStops[i - 1].locationId)]
                           [LocationIndex(ctx.locations, rtStops[i].locationId)]

\* LegTime adding the service time on the closing leg too.
LegTimeServiceOnReturn(rtStops, i, ctx) ==
    IF i = 1 THEN 0
    ELSE ctx.adjustedDurationMatrix[LocationIndex(ctx.locations, rtStops[i - 1].locationId)]
                                   [LocationIndex(ctx.locations, rtStops[i].locationId)]
         + SERVICE_TIME_MINUTES * 4

\* LegTime adding the service time before the multiplier is applied.
LegTimeScaledService(rtStops, i, ctx) ==
    IF i = 1 THEN 0
    ELSE ctx.adjustedDurationMatrix[LocationIndex(ctx.locations, rtStops[i - 1].locationId)]
                                   [LocationIndex(ctx.locations, rtStops[i].locationId)]
         + (IF i < Len(rtStops) THEN SERVICE_TIME_MINUTES * 2 * ctx.trafficMultiplier ELSE 0)

LegTime(rtStops, i, ctx) ==
    IF i = 1 THEN 0
    ELSE ctx.adjustedDurationMatrix[LocationIndex(ctx.locations, rtStops[i - 1].locationId)]
                                   [LocationIndex(ctx.locations, rtStops[i].locationId)]
         + (IF i < Len(rtStops) THEN SERVICE_TIME_MINUTES * 4 ELSE 0)

RECURSIVE CumulativeDist(_, _, _)
CumulativeDist(rtStops, i, ctx) ==
    IF i = 0 THEN 0 ELSE CumulativeDist(rtStops, i - 1, ctx) + LegDistance(rtStops, i, ctx)

RECURSIVE CumulativeTime(_, _, _)
CumulativeTime(rtStops, i, ctx) ==
    IF i = 0 THEN 0 ELSE CumulativeTime(rtStops, i - 1, ctx) + LegTime(rtStops, i, ctx)

\* str.padStart(2, '0')
PadStart2(str) == IF Len(str) < 2 THEN "0" \o str ELSE str

\* FormatEta without the padding of the minutes.
FormatEtaNoPad(departureTime, totalMinutesFromStart) ==
    LET etaMinutes == departureTime.hour * 60 + departureTime.minute + totalMinutesFromStart
        etaHour == (etaMinutes \div 60) % 24
        etaMinute == etaMinutes % 60
        displayHour == IF etaHour > 12 THEN etaHour - 12
                       ELSE IF etaHour = 0 THEN 12 ELSE etaHour
        ampm == IF etaHour >= 12 THEN "PM" ELSE "AM"
    IN ToString(displayHour) \o ":" \o ToString(etaMinute) \o " " \o ampm

\* The ETA string of a stop reached totalMinutesFromStart after departure;
\* departureTime is the "HH:MM" string split at the colon, as two numbers.
FormatEta(departureTime, totalMinutesFromStart) ==
    LET etaMinutes == departureTime.hour * 60 + departureTime.minute + totalMinutesFromStart
        etaHour == (etaMinutes \div 60) % 24
        etaMinute == etaMinutes % 60
        displayHour == IF etaHour > 12 THEN etaHour - 12
                       ELSE IF etaHour = 0 THEN 12 ELSE etaHour
        ampm == IF etaHour >= 12 THEN "PM" ELSE "AM"
    IN ToString(displayHour) \o ":" \o PadStart2(ToString(etaMinute)) \o " " \o ampm

\* AnnotateStops storing each leg instead of the running sums.
AnnotateStopsPerLeg(rtStops, ctx) ==
    [i \in 1..Len(rtStops) |->
        [locationId |-> rtStops[i].locationId,
         latitude |-> rtStops[i].latitude,
         longitude |-> rtStops[i].longitude,
         demand |-> rtStops[i].demand,
         order |-> rtStops[i].order,
         cumulativeDistance |-> ToFixed2(LegDistance(rtStops, i, ctx)),
         distanceFromPrev |-> ToFixed2(LegDistance(rtStops, i, ctx)),
         arrivalTime |-> RoundQuarter(LegTime(rtStops, i, ctx)),
         eta |-> FormatEta(ctx.departureTime, RoundQuarter(LegTime(rtStops, i, ctx)))]]

\* The annotation loop over rtStops.
AnnotateStops(rtStops, ctx) ==
    [i \in 1..Len(rtStops) |->
        [locationId |-> rtStops[i].locationId,
         latitude |-> rtStops[i].latitude,
         longitude |-> rtStops[i].longitude,
         demand |-> rtStops[i].demand,
         order |-> rtStops[i].order,
         cumulativeDistance |-> ToFixed2(CumulativeDist(rtStops, i, ctx)),
         distanceFromPrev |-> ToFixed2(LegDistance(rtStops, i, ctx)),
         arrivalTime |-> RoundQuarter(CumulativeTime(rtStops, i, ctx)),
         eta |-> FormatEta(ctx.departureTime, RoundQuarter(CumulativeTime(rtStops, i, ctx)))]]

\* RouteDuration adding the fixed delay to every route.
RouteDurationEveryRoute(rtStops, routes, ctx) ==
    RoundQuarter(CumulativeTime(rtStops, Len(rtStops), ctx))
    + (IF ctx.fixedDelayMinutes > 0 THEN ctx.fixedDelayMinutes ELSE 0)

\* Duration of the route being pushed: the rounded cumulative time, plus the
\* fixed delay when no route has been pushed yet.
RouteDuration(rtStops, routes, ctx) ==
    RoundQuarter(CumulativeTime(rtStops, Len(rtStops), ctx))
    + (IF ctx.fixedDelayMinutes > 0 /\ Len(routes) = 0 THEN ctx.fixedDelayMinutes ELSE 0)

\* The behaviour of the directions service for the n-th route requested.
GeoFor(geo, n) == geo[IF n < Len(geo) THEN n ELSE Len(geo)]

\* The route pushed for a slot that picked at least one location.
BuildRoute(vs, sel, routes, ctx) ==
    LET rtStops == RawStops(ctx.depot, sel.picked)
    IN [vehicle |-> vs.id,
        stops |-> AnnotateStops(rtStops, ctx),
        distance |-> CumulativeDist(rtStops, Len(rtStops), ctx),
        duration |-> RouteDuration(rtStops, routes, ctx),
        totalCapacity |-> vs.capacity - sel.remaining,
        geometry |-> LET geometry == getRouteGeometry(rtStops, ctx.incidentLocation,
                                                      GeoFor(ctx.geo, Len(routes) + 1))
                     IN IF geometry # NULL
                        THEN Some([type |-> "LineString", coordinates |-> Val(geometry)])
                        ELSE NULL,
        usingRealRoadData |-> ctx.success]

\* SlotLoop with an assigned set that starts empty for every slot.
RECURSIVE SlotLoopFreshAssigned(_, _, _, _, _, _)
SlotLoopFreshAssigned(vehicleSlots, k, nonDepot, assigned, routes, ctx) ==
    IF k > Len(vehicleSlots) THEN routes
    ELSE LET vs == vehicleSlots[k]
             sel == SelectStops(nonDepot, <<>>, vs.capacity, {},
                                LocationIndex(ctx.locations, ctx.depot.id), ctx)
             routes2 == IF Len(sel.picked) > 0
                        THEN Append(routes, BuildRoute(vs, sel, routes, ctx))
                        ELSE routes
         IN IF Cardinality(sel.assigned) = Len(nonDepot) THEN routes2
            ELSE SlotLoopFreshAssigned(vehicleSlots, k + 1, nonDepot, sel.assigned, routes2, ctx)

\* The loop over vehicleSlots, from slot k on.
RECURSIVE SlotLoop(_, _, _, _, _, _)
SlotLoop(vehicleSlots, k, nonDepot, assigned, routes, ctx) ==
    IF k > Len(vehicleSlots) THEN routes
    ELSE LET vs == vehicleSlots[k]
             sel == SelectStops(nonDepot, <<>>, vs.capacity, assigned,
                                LocationIndex(ctx.locations, ctx.depot.id), ctx)
             routes2 == IF Len(sel.picked) > 0
                        THEN Append(routes, BuildRoute(vs, sel, routes, ctx))
                        ELSE routes
         IN IF Cardinality(sel.assigned) = Len(nonDepot) THEN routes2
            ELSE SlotLoop(vehicleSlots, k + 1, nonDepot, sel.assigned, routes2, ctx)

\* runORToolsOptimization(vehicles, locations, depot, trafficMultiplier,
\* departureTime, incidentLocation, fixedDelayMinutes) under an environment
\* env = [road: outcome of the matrix request, geo: directions behaviours].
runORToolsOptimization(vehicles, locations, depot, trafficMultiplier, departureTime, incidentLocation, fixedDelayMinutes, env) ==
    LET nonDepot == SelectSeq(locations, LAMBDA l : l.id # depot.id)
        roadData == getRoadMatrix(locations, env.road)
        matrices == IF roadData # NULL THEN Val(roadData)
                    ELSE calculateFallbackMatrix(locations)
        ctx == [locations |-> locations,
                depot |-> depot,
                distanceMatrix |-> matrices.distanceMatrix,
                adjustedDurationMatrix |->
                    [i \in 1..Len(locations) |-> [j \in 1..Len(locations) |->
                        matrices.durationMatrix[i][j] * trafficMultiplier]],
                trafficMultiplier |-> trafficMultiplier,
                departureTime |-> departureTime,
                incidentLocation |-> incidentLocation,
                fixedDelayMinutes |-> fixedDelayMinutes,
                geo |-> env.geo,
                success |-> roadData # NULL]
    IN SlotLoop(ExpandVehicles(vehicles), 1, nonDepot, {}, <<>>, ctx)

\* --------------------------------------------- incident-analysis service
\* What the generative model does with one analysis request: no API key is
\* configured, the call or the parsing of its answer fails, or it answers
\* with a fixedDelayMinutes (possibly missing) and possibly a
\* trafficMultiplier (0 when the answer has none).
AnalysisRecord(success, fixedDelayMinutes, trafficMultiplier) ==
    [success |-> success,
     fixedDelayMinutes |-> fixedDelayMinutes,
     delayMinutes |-> fixedDelayMinutes,
     trafficMultiplier |-> trafficMultiplier,
     originalDuration |-> NULL,
     incidentType |-> NULL,
     resolved |-> FALSE]

\* EnsureRealistic without the cap at five hours.
EnsureRealisticNoCap(fixedDelayMinutes) ==
    IF fixedDelayMinutes < MinDelay THEN DefaultDelay
    ELSE fixedDelayMinutes

\* "Ensure fixed delay is realistic": the two if-statements on the answer's
\* fixedDelayMinutes.
EnsureRealistic(fixedDelayMinutes) ==
    IF fixedDelayMinutes > MaxDelay THEN MaxDelay
    ELSE IF fixedDelayMinutes < MinDelay THEN DefaultDelay
    ELSE fixedDelayMinutes

\* analyzeIncidentImpact(incidentType, affectedRoute, allRoutes); a missing
\* fixedDelayMinutes passes both comparisons unchanged and is kept as 0.
analyzeIncidentImpact(incidentType, affectedRoute, allRoutes, ai) ==
    CASE ai.kind = "noKey" -> AnalysisRecord(FALSE, DefaultDelay, 0)
      [] ai.kind = "error" -> AnalysisRecord(FALSE, DefaultDelay, 0)
      [] OTHER ->
           AnalysisRecord(TRUE,
                          IF ai.fixedDelayMinutes = NULL THEN 0
                          ELSE EnsureRealistic(Val(ai.fixedDelayMinutes)),
                          ai.trafficMultiplier)

\* ------------------------------------------------------------- controller
\* locations.find(loc => loc.isDepot)
FindDepot(locations) ==
    LET ds == SelectSeq(locations, LAMBDA l : l.isDepot)
    IN IF ds = <<>> THEN NULL ELSE Some(Head(ds))

Response(status, msg) == [status |-> status, msg |-> msg]

\* Vehicle.find / Location.find with _id $in ids: the stored documents with
\* one of the ids, in storage order.
FindIn(stored, ids) == SelectSeq(stored, LAMBDA doc : doc.id \in Range(ids))

\* populate(): the stored documents of the ids, in the order of the ids.
RECURSIVE Populate(_, _)
Populate(stored, ids) ==
    IF ids = <<>> THEN <<>>
    ELSE FindIn(stored, <<Head(ids)>>) \o Populate(stored, Tail(ids))

TotalDistance(routes) == SumSeq([i \in 1..Len(routes) |-> routes[i].distance])
TotalDuration(routes) == SumSeq([i \in 1..Len(routes) |-> routes[i].duration])

DefaultDeparture == [hour |-> 8, minute |-> 0]
DepartureOr(departureTime) ==
    IF departureTime = NULL THEN DefaultDeparture ELSE Val(departureTime)

\* createOptimization without the tests of the dataset size.
createOptimizationNoCaps(body, storedVehicles, storedLocations, env) ==
    LET reject(msg) == [resp |-> Response(400, msg), saved |-> NULL, built |-> NULL]
        vehicles == FindIn(storedVehicles, body.vehicleIds.known)
        locations == FindIn(storedLocations, body.locationIds.known)
        depot == FindDepot(locations)
        analysed == body.incidentType # NULL /\ body.affectedRouteIndex # NULL
        incidentAnalysis ==
            IF analysed
            THEN Some(analyzeIncidentImpact(body.incidentType, Val(body.affectedRouteIndex), <<>>, env.ai))
            ELSE NULL
        trafficMultiplier ==
            IF analysed THEN OrElse(Val(incidentAnalysis).trafficMultiplier, 3) ELSE 2
        routes == runORToolsOptimization(vehicles, locations, Val(depot), trafficMultiplier,
                                         DepartureOr(body.departureTime), NULL, 0, env)
    IN IF ~body.nameOk THEN reject("Valid optimization name is required")
       ELSE IF Len(body.vehicleIds.known) + body.vehicleIds.unknown = 0
            THEN reject("At least one vehicle must be selected")
       ELSE IF Len(body.locationIds.known) + body.locationIds.unknown = 0
            THEN reject("At least one location must be selected")
       ELSE IF Len(vehicles) = 0 THEN reject("No valid vehicles found")
       ELSE IF Len(locations) = 0 THEN reject("No valid locations found")
       ELSE IF depot = NULL
            THEN reject("At least one location must be marked as a depot")
       ELSE IF ~env.computeOk
            THEN [resp |-> Response(500, "OR-Tools optimization failed"), saved |-> NULL,
                  built |-> NULL]
       ELSE IF Len(routes) = 0 \/ ~env.saveOk
            THEN [resp |-> Response(500, "OR-Tools optimization failed"), saved |-> NULL,
                  built |-> Some(Len(routes))]
       ELSE [resp |-> Response(200, "ok"),
             built |-> Some(Len(routes)),
             saved |-> Some([vehicles |-> body.vehicleIds.known,
                             locations |-> body.locationIds.known,
                             routes |-> routes,
                             totalDistance |-> TotalDistance(routes),
                             totalDuration |-> TotalDuration(routes),
                             departureTime |-> DepartureOr(body.departureTime),
                             isIncidentActive |-> FALSE,
                             incidentLocation |-> NULL,
                             originalRoutes |-> <<>>,
                             incidentAnalysis |-> incidentAnalysis])]

\* createOptimization: the response, the document saved (NULL if none) and
\* the number of routes the Route Builder returned (NULL: it was not invoked
\* or did not return).
\* A list of ids is [known: ids of stored documents, unknown: how many more].
createOptimization(body, storedVehicles, storedLocations, env) ==
    LET reject(msg) == [resp |-> Response(400, msg), saved |-> NULL, built |-> NULL]
        vehicles == FindIn(storedVehicles, body.vehicleIds.known)
        locations == FindIn(storedLocations, body.locationIds.known)
        depot == FindDepot(locations)
        analysed == body.incidentType # NULL /\ body.affectedRouteIndex # NULL
        incidentAnalysis ==
            IF analysed
            THEN Some(analyzeIncidentImpact(body.incidentType, Val(body.affectedRouteIndex), <<>>, env.ai))
            ELSE NULL
        trafficMultiplier ==
            IF analysed THEN OrElse(Val(incidentAnalysis).trafficMultiplier, 3) ELSE 2
        routes == runORToolsOptimization(vehicles, locations, Val(depot), trafficMultiplier,
                                         DepartureOr(body.departureTime), NULL, 0, env)
    IN IF ~body.nameOk THEN reject("Valid optimization name is required")
       ELSE IF Len(body.vehicleIds.known) + body.vehicleIds.unknown = 0
            THEN reject("At least one vehicle must be selected")
       ELSE IF Len(body.locationIds.known) + body.locationIds.unknown = 0
            THEN reject("At least one location must be selected")
       ELSE IF Len(body.locationIds.known) + body.locationIds.unknown > MaxLocations
            THEN reject("Maximum 100 locations allowed")
       ELSE IF Len(body.vehicleIds.known) + body.vehicleIds.unknown > MaxVehicles
            THEN reject("Maximum 20 vehicles allowed")
       ELSE IF Len(vehicles) = 0 THEN reject("No valid vehicles found")
       ELSE IF Len(locations) = 0 THEN reject("No valid locations found")
       ELSE IF depot = NULL
            THEN reject("At least one location must be marked as a depot")
       ELSE IF ~env.computeOk
            THEN [resp |-> Response(500, "OR-Tools optimization failed"), saved |-> NULL,
                  built |-> NULL]
       ELSE IF Len(routes) = 0 \/ ~env.saveOk
            THEN [resp |-> Response(500, "OR-Tools optimization failed"), saved |-> NULL,
                  built |-> Some(Len(routes))]
       ELSE [resp |-> Response(200, "ok"),
             built |-> Some(Len(routes)),
             saved |-> Some([vehicles |-> body.vehicleIds.known,
                             locations |-> body.locationIds.known,
                             routes |-> routes,
                             totalDistance |-> TotalDistance(routes),
                             totalDuration |-> TotalDuration(routes),
                             departureTime |-> DepartureOr(body.departureTime),
                             isIncidentActive |-> FALSE,
                             incidentLocation |-> NULL,
                             originalRoutes |-> <<>>,
                             incidentAnalysis |-> incidentAnalysis])]

\* The incident point used by rerouteOptimization: the point of the request
\* when both its coordinates are truthy, else the midpoint of the depot and
\* the first stop of the first stored route, else null.
FinalIncidentLocation(optimization, incidentLocation) ==
    IF incidentLocation # NULL
       /\ Truthy(Val(incidentLocation).latitude)
       /\ Truthy(Val(incidentLocation).longitude)
    THEN Some([latitude |-> Val(incidentLocation).latitude,
               longitude |-> Val(incidentLocation).longitude])
    ELSE IF Len(optimization.routes) > 0 /\ Len(optimization.routes[1].stops) >= 2
    THEN LET depot == optimization.routes[1].stops[1]
             firstStop == optimization.routes[1].stops[2]
         IN Some([latitude |-> (depot.latitude + firstStop.latitude) \div 2,
                  longitude |-> (depot.longitude + firstStop.longitude) \div 2])
    ELSE NULL

\* geometry?.coordinates || []
Coordinates(route) ==
    IF route.geometry = NULL THEN <<>> ELSE Val(route.geometry).coordinates

\* The noAlternativeRoute flag computed by rerouteOptimization.
NoAlternativeRoute(originalRoutes, newRoutes) ==
    /\ Len(originalRoutes) > 0
    /\ Len(newRoutes) > 0
    /\ Coordinates(originalRoutes[1]) = Coordinates(newRoutes[1])

\* The incidentAnalysis paths of OptimizationSchema: what a save keeps of
\* the object assigned to optimization.incidentAnalysis (the schema is
\* strict, a property that is not a path of it is not stored).
IncidentAnalysisSchema(assigned) ==
    [success |-> assigned.success,
     fixedDelayMinutes |-> assigned.fixedDelayMinutes,
     delayMinutes |-> assigned.delayMinutes,
     trafficMultiplier |-> assigned.trafficMultiplier,
     originalDuration |-> assigned.originalDuration,
     incidentType |-> assigned.incidentType,
     resolved |-> assigned.resolved]

\* rerouteOptimization writing the routes in a first save and the rest in a
\* second one that fails.
rerouteOptimizationPartialSave(stored, body, storedVehicles, storedLocations, env) ==
    IF stored = NULL
    THEN [resp |-> Response(404, "Optimization not found"), saved |-> stored, built |-> NULL]
    ELSE
    LET optimization == Val(stored)
        vehicles == Populate(storedVehicles, optimization.vehicles)
        locations == Populate(storedLocations, optimization.locations)
        finalIncidentLocation == FinalIncidentLocation(optimization, body.incidentLocation)
        incidentAnalysis ==
            analyzeIncidentImpact(body.incidentType,
                                  IF body.affectedRouteIndex = NULL THEN 0
                                  ELSE OrElse(Val(body.affectedRouteIndex), 0),
                                  optimization.routes, env.ai)
        fixedDelayMinutes == OrElse(incidentAnalysis.fixedDelayMinutes, DefaultDelay)
        depot == FindDepot(locations)
        originalRoutes == optimization.routes
        originalDuration == optimization.totalDuration
        newRoutes == runORToolsOptimization(vehicles, locations, Val(depot), 2,
                                            optimization.departureTime,
                                            finalIncidentLocation, fixedDelayMinutes, env)
    IN IF depot = NULL
       THEN [resp |-> Response(400, "Depot not found"), saved |-> stored, built |-> NULL]
       ELSE IF ~env.computeOk
       THEN [resp |-> Response(500, "Rerouting failed"), saved |-> stored, built |-> NULL]
       ELSE IF ~env.saveOk
       THEN [resp |-> Response(500, "Rerouting failed"),
             saved |-> Some([optimization EXCEPT !.routes = newRoutes]),
             built |-> Some(Len(newRoutes))]
       ELSE [resp |-> Response(200, "ok"),
             built |-> Some(Len(newRoutes)),
             saved |-> Some([optimization EXCEPT
                 !.routes = newRoutes,
                 !.totalDistance = TotalDistance(newRoutes),
                 !.totalDuration = TotalDuration(newRoutes),
                 !.isIncidentActive = TRUE,
                 !.incidentLocation = finalIncidentLocation,
                 !.originalRoutes = originalRoutes,
                 !.incidentAnalysis = Some(IncidentAnalysisSchema(
                     [success |-> incidentAnalysis.success,
                      fixedDelayMinutes |-> incidentAnalysis.fixedDelayMinutes,
                      trafficMultiplier |-> incidentAnalysis.trafficMultiplier,
                      resolved |-> incidentAnalysis.resolved,
                      delayMinutes |-> fixedDelayMinutes,
                      originalDuration |-> Some(originalDuration),
                      incidentType |-> body.incidentType,
                      noAlternativeRoute |-> NoAlternativeRoute(originalRoutes, newRoutes)]))])]

\* rerouteOptimization on the stored document (NULL when there is none): the
\* response and the stored document afterwards.
rerouteOptimization(stored, body, storedVehicles, storedLocations, env) ==
    IF stored = NULL
    THEN [resp |-> Response(404, "Optimization not found"), saved |-> stored, built |-> NULL]
    ELSE
    LET optimization == Val(stored)
        vehicles == Populate(storedVehicles, optimization.vehicles)
        locations == Populate(storedLocations, optimization.locations)
        finalIncidentLocation == FinalIncidentLocation(optimization, body.incidentLocation)
        incidentAnalysis ==
            analyzeIncidentImpact(body.incidentType,
                                  IF body.affectedRouteIndex = NULL THEN 0
                                  ELSE OrElse(Val(body.affectedRouteIndex), 0),
                                  optimization.routes, env.ai)
        fixedDelayMinutes == OrElse(incidentAnalysis.fixedDelayMinutes, DefaultDelay)
        depot == FindDepot(locations)
        originalRoutes == optimization.routes
        originalDuration == optimization.totalDuration
        newRoutes == runORToolsOptimization(vehicles, locations, Val(depot), 2,
                                            optimization.departureTime,
                                            finalIncidentLocation, fixedDelayMinutes, env)
    IN IF depot = NULL
       THEN [resp |-> Response(400, "Depot not found"), saved |-> stored, built |-> NULL]
       ELSE IF ~env.computeOk
       THEN [resp |-> Response(500, "Rerouting failed"), saved |-> stored, built |-> NULL]
       ELSE IF ~env.saveOk
       THEN [resp |-> Response(500, "Rerouting failed"), saved |-> stored,
             built |-> Some(Len(newRoutes))]
       ELSE [resp |-> Response(200, "ok"),
             built |-> Some(Len(newRoutes)),
             saved |-> Some([optimization EXCEPT
                 !.routes = newRoutes,
                 !.totalDistance = TotalDistance(newRoutes),
                 !.totalDuration = TotalDuration(newRoutes),
                 !.isIncidentActive = TRUE,
                 !.incidentLocation = finalIncidentLocation,
                 !.originalRoutes = originalRoutes,
                 !.incidentAnalysis = Some(IncidentAnalysisSchema(
                     [success |-> incidentAnalysis.success,
                      fixedDelayMinutes |-> incidentAnalysis.fixedDelayMinutes,
                      trafficMultiplier |-> incidentAnalysis.trafficMultiplier,
                      resolved |-> incidentAnalysis.resolved,
                      delayMinutes |-> fixedDelayMinutes,
                      originalDuration |-> Some(originalDuration),
                      incidentType |-> body.incidentType,
                      noAlternativeRoute |-> NoAlternativeRoute(originalRoutes, newRoutes)]))])]

\* resolveIncident without the test of the incident flag.
resolveIncidentNoFlagTest(stored, storedVehicles, storedLocations, env) ==
    IF stored = NULL
    THEN [resp |-> Response(404, "Optimization not found"), saved |-> stored, built |-> NULL]
    ELSE
    LET optimization == Val(stored)
        vehicles == Populate(storedVehicles, optimization.vehicles)
        locations == Populate(storedLocations, optimization.locations)
        depot == FindDepot(locations)
        normalRoutes == runORToolsOptimization(vehicles, locations, Val(depot), 2,
                                               optimization.departureTime, NULL, 0, env)
    IN IF depot = NULL
       THEN [resp |-> Response(400, "Depot not found"), saved |-> stored, built |-> NULL]
       ELSE IF ~env.computeOk
       THEN [resp |-> Response(500, "Failed to resolve incident"), saved |-> stored,
             built |-> NULL]
       ELSE IF ~env.saveOk
       THEN [resp |-> Response(500, "Failed to resolve incident"), saved |-> stored,
             built |-> Some(Len(normalRoutes))]
       ELSE [resp |-> Response(200, "ok"),
             built |-> Some(Len(normalRoutes)),
             saved |-> Some([optimization EXCEPT
                 !.routes = normalRoutes,
                 !.totalDistance = TotalDistance(normalRoutes),
                 !.totalDuration = TotalDuration(normalRoutes),
                 !.isIncidentActive = FALSE,
                 !.incidentLocation = NULL,
                 !.originalRoutes = <<>>,
                 !.incidentAnalysis =
                     IF optimization.incidentAnalysis = NULL
                     THEN Some([AnalysisRecord(FALSE, 0, 0) EXCEPT !.resolved = TRUE])
                     ELSE Some([Val(optimization.incidentAnalysis) EXCEPT !.resolved = TRUE])])]

\* resolveIncident handing the recorded delay to the Route Builder again.
resolveIncidentKeepsDelay(stored, storedVehicles, storedLocations, env) ==
    IF stored = NULL
    THEN [resp |-> Response(404, "Optimization not found"), saved |-> stored, built |-> NULL]
    ELSE
    LET optimization == Val(stored)
        vehicles == Populate(storedVehicles, optimization.vehicles)
        locations == Populate(storedLocations, optimization.locations)
        depot == FindDepot(locations)
        normalRoutes == runORToolsOptimization(vehicles, locations, Val(depot), 2,
                            optimization.departureTime, NULL,
                            Val(optimization.incidentAnalysis).delayMinutes, env)
    IN IF ~optimization.isIncidentActive
       THEN [resp |-> Response(400, "No active incident to resolve"), saved |-> stored,
             built |-> NULL]
       ELSE IF depot = NULL
       THEN [resp |-> Response(400, "Depot not found"), saved |-> stored, built |-> NULL]
       ELSE IF ~env.computeOk
       THEN [resp |-> Response(500, "Failed to resolve incident"), saved |-> stored,
             built |-> NULL]
       ELSE IF ~env.saveOk
       THEN [resp |-> Response(500, "Failed to resolve incident"), saved |-> stored,
             built |-> Some(Len(normalRoutes))]
       ELSE [resp |-> Response(200, "ok"),
             built |-> Some(Len(normalRoutes)),
             saved |-> Some([optimization EXCEPT
                 !.routes = normalRoutes,
                 !.totalDistance = TotalDistance(normalRoutes),
                 !.totalDuration = TotalDuration(normalRoutes),
                 !.isIncidentActive = FALSE,
                 !.incidentLocation = NULL,
                 !.originalRoutes = <<>>,
                 !.incidentAnalysis =
                     Some([Val(optimization.incidentAnalysis) EXCEPT !.resolved = TRUE])])]

\* resolveIncident on the stored document.
resolveIncident(stored, storedVehicles, storedLocations, env) ==
    IF stored = NULL
    THEN [resp |-> Response(404, "Optimization not found"), saved |-> stored, built |-> NULL]
    ELSE
    LET optimization == Val(stored)
        vehicles == Populate(storedVehicles, optimization.vehicles)
        locations == Populate(storedLocations, optimization.locations)
        depot == FindDepot(locations)
        normalRoutes == runORToolsOptimization(vehicles, locations, Val(depot), 2,
                                               optimization.departureTime, NULL, 0, env)
    IN IF ~optimization.isIncidentActive
       THEN [resp |-> Response(400, "No active incident to resolve"), saved |-> stored,
             built |-> NULL]
       ELSE IF depot = NULL
       THEN [resp |-> Response(400, "Depot not found"), saved |-> stored, built |-> NULL]
       ELSE IF ~env.computeOk
       THEN [resp |-> Response(500, "Failed to resolve incident"), saved |-> stored,
             built |-> NULL]
       ELSE IF ~env.saveOk
       THEN [resp |-> Response(500, "Failed to resolve incident"), saved |-> stored,
             built |-> Some(Len(normalRoutes))]
       ELSE [resp |-> Response(200, "ok"),
             built |-> Some(Len(normalRoutes)),
             saved |-> Some([optimization EXCEPT
                 !.routes = normalRoutes,
                 !.totalDistance = TotalDistance(normalRoutes),
                 !.totalDuration = TotalDuration(normalRoutes),
                 !.isIncidentActive = FALSE,
                 !.incidentLocation = NULL,
                 !.originalRoutes = <<>>,
                 !.incidentAnalysis =
                     IF optimization.incidentAnalysis = NULL
                     THEN Some([AnalysisRecord(FALSE, 0, 0) EXCEPT !.resolved = TRUE])
                     ELSE Some([Val(optimization.incidentAnalysis) EXCEPT !.resolved = TRUE])])]

\* ------------------------------------------------------------------ state
VARIABLES
    rbArgs,          \* the arguments and environment of a Route Builder invocation
    rbRoutes,        \* what the invocation returned (NULL before it returns)
    storedVehicles,  \* the vehicles collection, in storage order
    storedLocations, \* the locations collection, in storage order
    stored,          \* the optimization document of the run (NULL: none)
    resp,            \* the last request, its response, and what the Route Builder returned to it
    page,            \* the detail page's copy of the run (NULL: not loaded)
    toast,           \* the last notification of the detail page
    hist,            \* history: what the run was before its incident
    geoCall,         \* one call of the Geometry Provider: arguments, requests sent, result
    sel,             \* the Route Builder's loops, iteration by iteration
    procs            \* two resolve requests in flight, step by step

stepVars == <<geoCall, sel, procs>>
vars == <<rbArgs, rbRoutes, storedVehicles, storedLocations, stored, resp, page, toast, hist, stepVars>>

rbVars == <<rbArgs, rbRoutes, stepVars>>
runVars == <<storedVehicles, storedLocations, stored, resp, page, toast, hist>>

\* ------------------------------------------------------------ input sets
Location(id, demand) ==
    [id |-> id, demand |-> demand, isDepot |-> (id = DepotId),
     latitude |-> Latitude(id), longitude |-> Longitude(id)]

\* The stored locations under a demand assignment, in storage order and in
\* the reverse order; the depot has no demand.
Demands == [LocIds \ {DepotId} -> 0..MaxDemand]
LocationList(dem) == [i \in 1..NumLocs |-> Location(i, IF i = DepotId THEN 0 ELSE dem[i])]
Reverse(s) == [i \in 1..Len(s) |-> s[Len(s) + 1 - i]]

\* Fleets of one vehicle record, and of two where the second has a capacity
\* and a count.
VehicleRecords(id) == [id : {id}, capacity : 0..MaxCapacity, count : 0..MaxCount]
VehicleLists ==
    {<<v>> : v \in VehicleRecords(1)}
    \cup {<<v, w>> : v \in VehicleRecords(1),
                     w \in {x \in VehicleRecords(2) : x.capacity > 0 /\ x.count > 0}}

\* Departure times: the default, shortly before noon, shortly before one
\* o'clock and shortly before midnight.
DepartureTimes ==
    {[hour |-> 8, minute |-> 0], [hour |-> 11, minute |-> 30],
     [hour |-> 12, minute |-> 45], [hour |-> 23, minute |-> 30]}
TrafficMultipliers == {2, 3}
FixedDelays == {0, 45}

GeoOk == [token |-> TRUE, first |-> "path", second |-> "path", detour |-> FALSE]
GeoNoToken == [GeoOk EXCEPT !.token = FALSE]
GeoDetour == [GeoOk EXCEPT !.detour = TRUE]
GeoRetry == [GeoOk EXCEPT !.first = "notOk"]

AiNoKey == [kind |-> "noKey", fixedDelayMinutes |-> NULL, trafficMultiplier |-> 0]
AiError == [AiNoKey EXCEPT !.kind = "error"]
AiAnswer(fixedDelayMinutes, trafficMultiplier) ==
    [kind |-> "answer", fixedDelayMinutes |-> fixedDelayMinutes,
     trafficMultiplier |-> trafficMultiplier]

\* Answers of the generative model: delays below, inside and above the
\* range, a missing delay, and an answer that carries a multiplier of 2.0.
AiOutcomes ==
    {AiNoKey, AiError, AiAnswer(NULL, 0), AiAnswer(NULL, 4)}
    \cup {AiAnswer(Some(d), 0) : d \in {MinDelay - 20, MinDelay + 15, MaxDelay + 100}}

\* Environments of the Route Builder on its own.
Environments ==
    {[road |-> r, geo |-> <<IF r = "noToken" THEN GeoNoToken ELSE GeoOk>>] :
        r \in RoadOutcomes}

\* Environments of a request: the base one, and the base one with one of
\* its parts changed.  computeOk: the Route Builder returns (it throws, for
\* one, on a matrix answer with fewer rows than locations); saveOk: the
\* save of the document succeeds.
EnvBase ==
    [road |-> "live", geo |-> <<GeoDetour>>, ai |-> AiNoKey, computeOk |-> TRUE, saveOk |-> TRUE]
RequestEnvs ==
    {EnvBase, [EnvBase EXCEPT !.saveOk = FALSE]}
    \cup {[EnvBase EXCEPT !.road = r] : r \in RoadOutcomes}
    \cup {[EnvBase EXCEPT !.geo = <<g>>] : g \in {GeoNoToken, GeoOk}}
    \cup {[EnvBase EXCEPT !.ai = a] : a \in AiOutcomes}

\* Environments of the requests made while the detail page is open.
PageEnvs ==
    {EnvBase, [EnvBase EXCEPT !.saveOk = FALSE], [EnvBase EXCEPT !.geo = <<GeoNoToken>>]}

\* ------------------------------------------- Route Builder on its own
InitRB ==
    /\ \E dem \in Demands, rev \in BOOLEAN, vehicles \in VehicleLists,
          m \in TrafficMultipliers, d \in FixedDelays, env \in Environments,
          departureTime \in DepartureTimes :
          /\ departureTime # DefaultDeparture => (~rev /\ d = 0 /\ env.road = "live")
          /\ rbArgs = [vehicles |-> vehicles,
                       locations |-> IF rev THEN Reverse(LocationList(dem))
                                     ELSE LocationList(dem),
                       trafficMultiplier |-> m,
                       departureTime |-> departureTime,
                       incidentLocation |-> NULL,
                       fixedDelayMinutes |-> d,
                       env |-> env]
    /\ rbRoutes = NULL
    /\ storedVehicles = <<>>
    /\ storedLocations = <<>>
    /\ stored = NULL
    /\ resp = [op |-> "none", status |-> 0, msg |-> "", built |-> NULL, body |-> NULL]
    /\ page = NULL
    /\ toast = ""
    /\ hist = NULL
    /\ geoCall = NULL
    /\ sel = NULL
    /\ procs = NULL

InvokeRouteBuilder ==
    /\ rbRoutes = NULL
    /\ rbRoutes' = Some(runORToolsOptimization(
                       rbArgs.vehicles, rbArgs.locations,
                       Val(FindDepot(rbArgs.locations)),
                       rbArgs.trafficMultiplier, rbArgs.departureTime,
                       rbArgs.incidentLocation, rbArgs.fixedDelayMinutes, rbArgs.env))
    /\ UNCHANGED <<rbArgs, stepVars, runVars>>

NextRB == InvokeRouteBuilder

SpecRB == InitRB /\ [][NextRB]_vars

\* ---------------------------------------- one call of getRouteGeometry
\* No run, no request and no page.
NoController ==
    /\ storedVehicles = <<>>
    /\ storedLocations = <<>>
    /\ stored = NULL
    /\ resp = [op |-> "none", status |-> 0, msg |-> "", built |-> NULL, body |-> NULL]
    /\ page = NULL
    /\ toast = ""
    /\ hist = NULL

\* Stop lists handed to the Geometry Provider: the depot alone, and closed
\* routes with one and with two deliveries.
GeoStops ==
    LET locations == LocationList([i \in LocIds \ {DepotId} |-> 1])
        depot == Val(FindDepot(locations))
        nonDepot == SelectSeq(locations, LAMBDA l : l.id # depot.id)
    IN {<<RawStop(depot, 0)>>} \cup {RawStops(depot, SubSeq(nonDepot, 1, n)) : n \in 1..2}

\* Incident locations: none, a point, and points on the equator and on the
\* prime meridian.
GeoIncidentLocations ==
    {NULL} \cup {Some([latitude |-> lat, longitude |-> lng]) :
                    lat \in {0, 3}, lng \in {0, 3}}

GeoBehaviours == [token : BOOLEAN, first : GeoAnswers, second : GeoAnswers, detour : BOOLEAN]

InitGeo ==
    /\ rbArgs = NULL
    /\ rbRoutes = NULL
    /\ NoController
    /\ \E stops \in GeoStops, incidentLocation \in GeoIncidentLocations, geo \in GeoBehaviours :
          geoCall = Some([stops |-> stops, incidentLocation |-> incidentLocation, geo |-> geo,
                          done |-> FALSE, requests |-> <<>>, result |-> NULL])
    /\ sel = NULL
    /\ procs = NULL

\* await getRouteGeometry(rtStops, incidentLocation)
InvokeGetRouteGeometry ==
    /\ geoCall # NULL
    /\ ~Val(geoCall).done
    /\ geoCall' = Some([Val(geoCall) EXCEPT
                          !.done = TRUE,
                          !.requests = getRouteGeometryRequests(Val(geoCall).stops,
                                                                Val(geoCall).incidentLocation,
                                                                Val(geoCall).geo),
                          !.result = getRouteGeometry(Val(geoCall).stops,
                                                      Val(geoCall).incidentLocation,
                                                      Val(geoCall).geo)])
    /\ UNCHANGED <<rbArgs, rbRoutes, sel, procs, runVars>>

NextGeo == InvokeGetRouteGeometry

SpecGeo == InitGeo /\ [][NextGeo]_vars

\* --------------------------------------------------------- the controller
\* The fleet of the run: one large vehicle and MaxCount small ones.
Fleet == <<[id |-> 1, capacity |-> MaxCapacity, count |-> 1],
           [id |-> 2, capacity |-> 1, count |-> MaxCount]>>

Ids(known, unknown) == [known |-> known, unknown |-> unknown]
AllLocIds == [i \in 1..NumLocs |-> i]

\* Create requests: a base request, and the base request with one of its
\* parts changed (the last ones are the invalid requests).
CreateBase ==
    [nameOk |-> TRUE,
     vehicleIds |-> Ids(<<1, 2>>, 0),
     locationIds |-> Ids(AllLocIds, 0),
     incidentType |-> NULL,
     affectedRouteIndex |-> NULL,
     departureTime |-> NULL]
CreateBodies ==
    {CreateBase,
     [CreateBase EXCEPT !.vehicleIds = Ids(<<2, 1>>, 0)],
     [CreateBase EXCEPT !.locationIds = Ids(Reverse(AllLocIds), 0)],
     [CreateBase EXCEPT !.incidentType = Some("ACCIDENT"), !.affectedRouteIndex = Some(0)],
     [CreateBase EXCEPT !.incidentType = Some("ACCIDENT")],
     [CreateBase EXCEPT !.departureTime = Some([hour |-> 23, minute |-> 30])],
     [CreateBase EXCEPT !.locationIds = Ids(<<DepotId>>, 0)],
     [CreateBase EXCEPT !.nameOk = FALSE],
     [CreateBase EXCEPT !.vehicleIds = Ids(<<>>, 0)],
     [CreateBase EXCEPT !.vehicleIds = Ids(<<>>, 1)],
     [CreateBase EXCEPT !.vehicleIds = Ids(<<1>>, MaxVehicles)],
     [CreateBase EXCEPT !.locationIds = Ids(<<>>, 0)],
     [CreateBase EXCEPT !.locationIds = Ids(<<>>, 1)],
     [CreateBase EXCEPT !.locationIds = Ids(<<DepotId>>, MaxLocations)],
     [CreateBase EXCEPT !.locationIds = Ids(Tail(AllLocIds), 0)]}

\* Reroute requests: as the detail page sends them (with and without a
\* point), with a point on the equator, for the second route without a
\* point, and without type and route index.
RerouteBase ==
    [incidentType |-> Some("ACCIDENT"), affectedRouteIndex |-> Some(0),
     incidentLocation |-> Some([latitude |-> 3, longitude |-> 3])]
RerouteBodies ==
    {RerouteBase,
     [RerouteBase EXCEPT !.incidentLocation = NULL],
     [RerouteBase EXCEPT !.incidentLocation = Some([latitude |-> 0, longitude |-> 3])],
     [RerouteBase EXCEPT !.affectedRouteIndex = Some(1), !.incidentLocation = NULL],
     [RerouteBase EXCEPT !.incidentType = NULL, !.affectedRouteIndex = NULL]}

\* A request is a body and the environment it is served in: every body in
\* the base environment, and the base body in every environment.
CreateRequests ==
    {[body |-> b, env |-> EnvBase] : b \in CreateBodies}
    \cup {[body |-> CreateBase, env |-> e] : e \in RequestEnvs}
    \cup {[body |-> [CreateBase EXCEPT !.incidentType = Some("ACCIDENT"),
                                       !.affectedRouteIndex = Some(0)],
           env |-> [EnvBase EXCEPT !.ai = AiAnswer(NULL, 4)]]}
RerouteRequests ==
    {[body |-> b, env |-> EnvBase] : b \in RerouteBodies}
    \cup {[body |-> RerouteBase, env |-> e] : e \in RequestEnvs}

Totals(optimization) ==
    [totalDistance |-> optimization.totalDistance,
     totalDuration |-> optimization.totalDuration]

Init ==
    /\ rbArgs = NULL
    /\ rbRoutes = NULL
    /\ storedVehicles = Fleet
    /\ \E d \in 1..MaxDemand :
          storedLocations = LocationList([i \in LocIds \ {DepotId} |-> d])
    /\ stored = NULL
    /\ resp = [op |-> "none", status |-> 0, msg |-> "", built |-> NULL, body |-> NULL]
    /\ page = NULL
    /\ toast = ""
    /\ hist = NULL
    /\ geoCall = NULL
    /\ sel = NULL
    /\ procs = NULL

\* History kept for a run: the routes and total duration it had when it was
\* last NORMAL, the totals it had right before its last successful simulate,
\* what the analysis service did in that simulate, and whether the last
\* successful request was a simulate or a resolve.
HistAfterCreate(saved) ==
    Some([normalRoutes |-> Val(saved).routes,
          normalDuration |-> Val(saved).totalDuration,
          beforeSimulate |-> Totals(Val(saved)),
          ai |-> AiNoKey,
          last |-> "create"])
HistAfterSimulate(before, ai) ==
    Some([Val(hist) EXCEPT !.beforeSimulate = Totals(Val(before)),
                           !.ai = ai,
                           !.last = "simulate"])
HistAfterResolve(saved) ==
    Some([Val(hist) EXCEPT
             !.normalRoutes = Val(saved).routes,
             !.normalDuration = Val(saved).totalDuration,
             !.last = IF Val(hist).last = "simulate" THEN "simulate-resolve" ELSE "resolve"])

\* POST /api/optimization
CreateWith(requests) ==
    /\ stored = NULL
    /\ \E req \in requests :
       \E r \in {createOptimization(req.body, storedVehicles, storedLocations, req.env)} :
             /\ stored' = r.saved
             /\ resp' = [op |-> "create", status |-> r.resp.status, msg |-> r.resp.msg,
                         built |-> r.built, body |-> Some(req.body)]
             /\ hist' = IF r.saved = NULL THEN hist ELSE HistAfterCreate(r.saved)
    /\ UNCHANGED <<rbVars, storedVehicles, storedLocations, page, toast>>

\* POST /api/optimization/:id/reroute
RerouteWith(requests) ==
    /\ \E req \in requests :
       \E r \in {rerouteOptimization(stored, req.body, storedVehicles, storedLocations, req.env)} :
             /\ stored' = r.saved
             /\ resp' = [op |-> "reroute", status |-> r.resp.status, msg |-> r.resp.msg,
                         built |-> r.built, body |-> Some(req.body)]
             /\ hist' = IF r.resp.status = 200 THEN HistAfterSimulate(stored, req.env.ai)
                        ELSE hist
    /\ UNCHANGED <<rbVars, storedVehicles, storedLocations, page, toast>>

\* POST /api/optimization/:id/resolve
ResolveWith(envs) ==
    /\ \E env \in envs :
       \E r \in {resolveIncident(stored, storedVehicles, storedLocations, env)} :
             /\ stored' = r.saved
             /\ resp' = [op |-> "resolve", status |-> r.resp.status, msg |-> r.resp.msg,
                         built |-> r.built, body |-> NULL]
             /\ hist' = IF r.resp.status = 200 THEN HistAfterResolve(r.saved) ELSE hist
    /\ UNCHANGED <<rbVars, storedVehicles, storedLocations, page, toast>>

\* DELETE /api/optimization/:id
Delete ==
    /\ stored' = NULL
    /\ hist' = NULL
    /\ resp' = IF stored = NULL
               THEN [op |-> "delete", status |-> 404, msg |-> "Optimization not found",
                     built |-> NULL, body |-> NULL]
               ELSE [op |-> "delete", status |-> 200, msg |-> "Optimization removed",
                     built |-> NULL, body |-> NULL]
    /\ UNCHANGED <<rbVars, storedVehicles, storedLocations, page, toast>>

Create == CreateWith(CreateRequests)
Reroute == RerouteWith(RerouteRequests)
Resolve == ResolveWith(RequestEnvs)

Next == Create \/ Reroute \/ Resolve \/ Delete

Spec == Init /\ [][Next]_vars

\* ---------------------------------------------------------- the detail page
\* What the page keeps of a fetched run: the incident flag and the first
\* route (optimization.routes?.[0]).
PageOf(optimization) ==
    Some([isIncidentActive |-> optimization.isIncidentActive,
          firstRoute |-> IF Len(optimization.routes) > 0
                         THEN Some(optimization.routes[1]) ELSE NULL])

\* The incident point handleSimulateIncident puts in its request: the middle
\* point of the first route's geometry, else the midpoint of the depot and
\* the first stop, else none.
PageIncidentLocation(firstRoute) ==
    IF firstRoute = NULL THEN NULL
    ELSE IF Len(Coordinates(Val(firstRoute))) > 0
    THEN LET geometryCoordinates == Coordinates(Val(firstRoute))
             midPoint == geometryCoordinates[(Len(geometryCoordinates) \div 2) + 1]
         IN Some([latitude |-> midPoint[2], longitude |-> midPoint[1]])
    ELSE IF Len(Val(firstRoute).stops) >= 2
    THEN LET depot == Val(firstRoute).stops[1]
             firstStop == Val(firstRoute).stops[2]
         IN Some([latitude |-> (depot.latitude + firstStop.latitude) \div 2,
                  longitude |-> (depot.longitude + firstStop.longitude) \div 2])
    ELSE NULL

\* fetchOptimization: GET /api/optimization/:id
FetchOptimization ==
    /\ IF stored = NULL
       THEN page' = page /\ toast' = "Failed to load optimization details"
       ELSE page' = PageOf(Val(stored)) /\ toast' = ""
    /\ UNCHANGED <<rbVars, storedVehicles, storedLocations, stored, resp, hist>>

\* handleSimulateIncident
HandleSimulateIncident ==
    IF page = NULL
    THEN /\ toast' = "No optimization loaded"
         /\ UNCHANGED <<rbVars, storedVehicles, storedLocations, stored, resp, page, hist>>
    ELSE IF Val(page).isIncidentActive
    THEN /\ toast' = "An incident is already active. Resolve it first."
         /\ UNCHANGED <<rbVars, storedVehicles, storedLocations, stored, resp, page, hist>>
    ELSE \E env \in PageEnvs :
         \E body \in {[incidentType |-> Some("ACCIDENT"), affectedRouteIndex |-> Some(0),
                       incidentLocation |-> PageIncidentLocation(Val(page).firstRoute)]} :
         \E r \in {rerouteOptimization(stored, body, storedVehicles, storedLocations, env)} :
            /\ stored' = r.saved
            /\ resp' = [op |-> "reroute", status |-> r.resp.status, msg |-> r.resp.msg,
                        built |-> r.built, body |-> Some(body)]
            /\ hist' = IF r.resp.status = 200 THEN HistAfterSimulate(stored, env.ai)
                       ELSE hist
            /\ page' = IF r.resp.status = 200 THEN PageOf(Val(r.saved)) ELSE page
            /\ toast' = IF r.resp.status = 200
                        THEN "Route recalculated with traffic incident!"
                        ELSE r.resp.msg
            /\ UNCHANGED <<rbVars, storedVehicles, storedLocations>>

\* handleResolveIncident
HandleResolveIncident ==
    IF page = NULL
    THEN /\ toast' = "No optimization loaded"
         /\ UNCHANGED <<rbVars, storedVehicles, storedLocations, stored, resp, page, hist>>
    ELSE IF ~Val(page).isIncidentActive
    THEN /\ toast' = "No active incident to resolve"
         /\ UNCHANGED <<rbVars, storedVehicles, storedLocations, stored, resp, page, hist>>
    ELSE \E env \in PageEnvs :
         \E r \in {resolveIncident(stored, storedVehicles, storedLocations, env)} :
            /\ stored' = r.saved
            /\ resp' = [op |-> "resolve", status |-> r.resp.status, msg |-> r.resp.msg,
                        built |-> r.built, body |-> NULL]
            /\ hist' = IF r.resp.status = 200 THEN HistAfterResolve(r.saved) ELSE hist
            /\ page' = IF r.resp.status = 200 THEN PageOf(Val(r.saved)) ELSE page
            /\ toast' = IF r.resp.status = 200
                        THEN "Incident resolved! Routes restored to normal."
                        ELSE r.resp.msg
            /\ UNCHANGED <<rbVars, storedVehicles, storedLocations>>

\* Requests of other clients while the page is open.
CreateOther == CreateWith({[body |-> CreateBase, env |-> e] : e \in PageEnvs})
RerouteOther == RerouteWith({[body |-> RerouteBase, env |-> EnvBase]})
ResolveOther == ResolveWith({EnvBase})

NextUI ==
    \/ CreateOther
    \/ RerouteOther
    \/ ResolveOther
    \/ FetchOptimization
    \/ HandleSimulateIncident
    \/ HandleResolveIncident

SpecUI == Init /\ [][NextUI]_vars

\* ------------------------------------------------ the fleet under a run
\* PUT /api/vehicles/:id: the capacity of a stored vehicle is changed while
\* runs that refer to the vehicle exist.
UpdateVehicle ==
    /\ \E i \in 1..Len(storedVehicles), capacity \in 0..MaxCapacity :
          /\ storedVehicles[i].capacity # capacity
          /\ storedVehicles' = [storedVehicles EXCEPT ![i].capacity = capacity]
    /\ resp' = [op |-> "updateVehicle", status |-> 200, msg |-> "ok",
                built |-> NULL, body |-> NULL]
    /\ UNCHANGED <<rbVars, storedLocations, stored, page, toast, hist>>

\* Requests on a run while the fleet is edited.
CreateRun == CreateWith({[body |-> CreateBase, env |-> EnvBase]})
SimulateRun == RerouteWith({[body |-> RerouteBase, env |-> EnvBase]})
ResolveRun == ResolveWith({EnvBase})

NextFleet == CreateRun \/ SimulateRun \/ ResolveRun \/ UpdateVehicle

SpecFleet == Init /\ [][NextFleet]_vars

\* ------------------------------------------------- requests that fail
\* Environments in which the Route Builder or the save may fail.
FailEnvs == {EnvBase, [EnvBase EXCEPT !.saveOk = FALSE], [EnvBase EXCEPT !.computeOk = FALSE]}

CreateMayFail == CreateWith({[body |-> CreateBase, env |-> e] : e \in FailEnvs})
SimulateMayFail ==
    RerouteWith({[body |-> b, env |-> e] :
                    b \in {RerouteBase, [RerouteBase EXCEPT !.incidentLocation = NULL]},
                    e \in FailEnvs \cup {[EnvBase EXCEPT !.road = "error"]}})
ResolveMayFail == ResolveWith(FailEnvs \cup {[EnvBase EXCEPT !.road = "error"]})

NextAtomic == CreateMayFail \/ SimulateMayFail \/ ResolveMayFail \/ Delete

SpecAtomic == Init /\ [][NextAtomic]_vars

\* ------------------------------- the loops of the Route Builder, by step
\* The locations other than the depot, the vehicle slots, and the matrix of
\* an invocation whose loops are followed iteration by iteration.
LoopDepot(s) == Val(FindDepot(s.locations))
LoopNonDepot(s) == SelectSeq(s.locations, LAMBDA l : l.id # LoopDepot(s).id)
LoopSlots(s) == ExpandVehicles(s.vehicles)
LoopCtx(s) ==
    LET roadData == getRoadMatrix(s.locations, s.road)
    IN [locations |-> s.locations,
        distanceMatrix |-> IF roadData # NULL THEN Val(roadData).distanceMatrix
                           ELSE calculateFallbackMatrix(s.locations).distanceMatrix]

InitLoop ==
    /\ rbArgs = NULL
    /\ rbRoutes = NULL
    /\ NoController
    /\ geoCall = NULL
    /\ procs = NULL
    /\ \E dem \in Demands, vehicles \in VehicleLists, road \in {"live", "error"} :
          sel = Some([vehicles |-> vehicles, locations |-> LocationList(dem), road |-> road,
                      k |-> 1, pc |-> "for", remaining |-> 0, assigned |-> {},
                      currentIndex |-> 0, picked |-> <<>>, routes |-> <<>>])

\* for (const vs of vehicleSlots): the next slot starts at the depot with
\* its whole capacity, or the loop is over.
NextSlot ==
    /\ sel # NULL
    /\ Val(sel).pc = "for"
    /\ sel' = IF Val(sel).k > Len(LoopSlots(Val(sel)))
              THEN Some([Val(sel) EXCEPT !.pc = "done"])
              ELSE Some([Val(sel) EXCEPT
                           !.pc = "while",
                           !.remaining = LoopSlots(Val(sel))[Val(sel).k].capacity,
                           !.picked = <<>>,
                           !.currentIndex = LocationIndex(Val(sel).locations,
                                                          LoopDepot(Val(sel)).id)])
    /\ UNCHANGED <<rbArgs, rbRoutes, geoCall, procs, runVars>>

\* One iteration of while (true): scan for the nearest location that fits,
\* break when there is none, else push it and move to it.
SelectIteration ==
    /\ sel # NULL
    /\ Val(sel).pc = "while"
    /\ \E best \in {ScanNearest(LoopNonDepot(Val(sel)), 1, 0, 0, Val(sel).assigned,
                                Val(sel).remaining, Val(sel).currentIndex, LoopCtx(Val(sel)))} :
          sel' = IF best = 0
                 THEN Some([Val(sel) EXCEPT !.pc = "close"])
                 ELSE LET loc == LoopNonDepot(Val(sel))[best]
                      IN Some([Val(sel) EXCEPT
                                  !.picked = Append(@, loc),
                                  !.remaining = @ - OrElse(loc.demand, 0),
                                  !.assigned = @ \cup {loc.id},
                                  !.currentIndex = LocationIndex(Val(sel).locations, loc.id)])
    /\ UNCHANGED <<rbArgs, rbRoutes, geoCall, procs, runVars>>

\* After the while loop: the route is closed and pushed if it has stops, and
\* the for loop breaks when every location is assigned.
CloseRoute ==
    /\ sel # NULL
    /\ Val(sel).pc = "close"
    /\ sel' = Some([Val(sel) EXCEPT
                      !.routes = IF Len(Val(sel).picked) > 0
                                 THEN Append(@, [vehicle |-> LoopSlots(Val(sel))[Val(sel).k].id,
                                                 stops |-> RawStops(LoopDepot(Val(sel)),
                                                                    Val(sel).picked)])
                                 ELSE @,
                      !.picked = <<>>,
                      !.k = IF Cardinality(Val(sel).assigned) = Len(LoopNonDepot(Val(sel)))
                            THEN @ ELSE @ + 1,
                      !.pc = IF Cardinality(Val(sel).assigned) = Len(LoopNonDepot(Val(sel)))
                             THEN "done" ELSE "for"])
    /\ UNCHANGED <<rbArgs, rbRoutes, geoCall, procs, runVars>>

NextLoop == NextSlot \/ SelectIteration \/ CloseRoute

\* The handler is not suspended inside the loops: a step that can be taken
\* is taken.
SpecLoop == InitLoop /\ [][NextLoop]_vars /\ WF_vars(NextLoop)

\* ------------------------------------ two resolve requests on the same run
\* The handler awaits the read (findById and populate), the Route Builder
\* and the save; between these another request may run.
Requests == {1, 2}

\* An INCIDENT_ACTIVE run: created by a request, then simulated.
ActiveRunOf(createBody, vehicles, locations) ==
    rerouteOptimization(createOptimization(createBody, vehicles, locations, EnvBase).saved,
                        RerouteBase, vehicles, locations, EnvBase).saved

\* The matrix service at the time of a request's recomputation.
ResolveEnvs == {EnvBase, [EnvBase EXCEPT !.road = "error"]}

InitConc ==
    /\ rbArgs = NULL
    /\ rbRoutes = NULL
    /\ storedVehicles = Fleet
    /\ \E d \in 1..MaxDemand :
          storedLocations = LocationList([i \in LocIds \ {DepotId} |-> d])
    /\ \E createBody \in {CreateBase, [CreateBase EXCEPT !.vehicleIds = Ids(<<2, 1>>, 0)]} :
          stored = ActiveRunOf(createBody, storedVehicles, storedLocations)
    /\ resp = [op |-> "none", status |-> 0, msg |-> "", built |-> NULL, body |-> NULL]
    /\ page = NULL
    /\ toast = ""
    /\ hist = NULL
    /\ geoCall = NULL
    /\ sel = NULL
    /\ procs = Some([p \in Requests |->
                       [pc |-> "start", optimization |-> NULL, update |-> NULL,
                        status |-> 0, msg |-> ""]])

\* const optimization = await Optimization.findById(id).populate(...)
ResolveRead(p) ==
    /\ procs # NULL
    /\ Val(procs)[p].pc = "start"
    /\ procs' = Some([Val(procs) EXCEPT ![p].pc = "read", ![p].optimization = stored])
    /\ UNCHANGED <<rbArgs, rbRoutes, geoCall, sel, runVars>>

\* From the tests of the document that was read to the last assignment
\* before the save: the handler on the request's own copy of the document.
ResolveRecompute(p) ==
    /\ procs # NULL
    /\ Val(procs)[p].pc = "read"
    /\ \E env \in ResolveEnvs :
       \E r \in {resolveIncident(Val(procs)[p].optimization, storedVehicles, storedLocations, env)} :
          procs' = Some([Val(procs) EXCEPT
                           ![p].pc = IF r.resp.status = 200 THEN "computed" ELSE "done",
                           ![p].update = IF r.resp.status = 200 THEN r.saved ELSE NULL,
                           ![p].status = IF r.resp.status = 200 THEN 0 ELSE r.resp.status,
                           ![p].msg = IF r.resp.status = 200 THEN "" ELSE r.resp.msg])
    /\ UNCHANGED <<rbArgs, rbRoutes, geoCall, sel, runVars>>

\* await optimization.save(), and the response. When the stored document is
\* no longer the one that was read, the write either replaces it or is
\* refused by the store's version test (the handler's catch answers 500).
ResolveSave(p) ==
    /\ procs # NULL
    /\ Val(procs)[p].pc = "computed"
    /\ \E refused \in {b \in BOOLEAN : b => stored # Val(procs)[p].optimization} :
          IF refused
          THEN /\ procs' = Some([Val(procs) EXCEPT ![p].pc = "done", ![p].status = 500,
                                                   ![p].msg = "Failed to resolve incident"])
               /\ UNCHANGED stored
          ELSE /\ procs' = Some([Val(procs) EXCEPT ![p].pc = "done", ![p].status = 200,
                                                   ![p].msg = "ok"])
               /\ stored' = Val(procs)[p].update
    /\ UNCHANGED <<rbArgs, rbRoutes, geoCall, sel, storedVehicles, storedLocations,
                   resp, page, toast, hist>>

NextConc == \E p \in Requests : ResolveRead(p) \/ ResolveRecompute(p) \/ ResolveSave(p)

SpecConc == InitConc /\ [][NextConc]_vars

\* =================================================================== claims
\* Number of stops of the routes that visit location id.
RECURSIVE StopCount(_, _)
StopCount(routes, id) ==
    IF routes = <<>> THEN 0
    ELSE Cardinality({i \in 1..Len(Head(routes).stops) : Head(routes).stops[i].locationId = id})
         + StopCount(Tail(routes), id)

RbDepotId == Val(FindDepot(rbArgs.locations)).id

\* C1: in the route set returned by an invocation of the Route Builder,
\* every non-depot location is a stop of at most one route, and at most once
\* within that route.
C1_EachLocationAtMostOnce ==
    rbRoutes # NULL =>
        \A id \in LocIds \ {RbDepotId} : StopCount(Val(rbRoutes), id) <= 1

\* C1 witness: two routes were returned and together they visit every
\* non-depot location.
C1_Witness ==
    /\ rbRoutes # NULL
    /\ Len(Val(rbRoutes)) >= 2
    /\ \A id \in LocIds \ {RbDepotId} : StopCount(Val(rbRoutes), id) = 1

\* Capacity of the vehicle slots expanded from the vehicle record with this id.
SlotCapacity(vehicles, id) ==
    LET v == CHOOSE w \in Range(vehicles) : w.id = id IN OrElse(v.capacity, 0)

\* Sum of the demands of the non-depot stops of a route.
RouteLoad(route, depotId) ==
    SumSeq([i \in 1..Len(route.stops) |->
               IF route.stops[i].locationId = depotId THEN 0 ELSE route.stops[i].demand])

\* C2: with non-negative demands, the demands of the non-depot stops of every
\* produced route sum to at most the capacity of the slot serving the route.
C2_LoadWithinCapacity ==
    rbRoutes # NULL =>
        \A r \in 1..Len(Val(rbRoutes)) :
            RouteLoad(Val(rbRoutes)[r], RbDepotId)
                <= SlotCapacity(rbArgs.vehicles, Val(rbRoutes)[r].vehicle)

\* C2 witness: a route is filled to the capacity of its slot while a location
\* with positive demand stays unassigned.
C2_Witness ==
    /\ rbRoutes # NULL
    /\ \E r \in 1..Len(Val(rbRoutes)) :
          /\ RouteLoad(Val(rbRoutes)[r], RbDepotId) > 0
          /\ RouteLoad(Val(rbRoutes)[r], RbDepotId)
                = SlotCapacity(rbArgs.vehicles, Val(rbRoutes)[r].vehicle)
    /\ \E id \in LocIds \ {RbDepotId} :
          /\ StopCount(Val(rbRoutes), id) = 0
          /\ \E l \in Range(rbArgs.locations) : l.id = id /\ l.demand > 0

\* The routes of the same invocation without the fixed delay.
RbRoutesNoDelay ==
    runORToolsOptimization(rbArgs.vehicles, rbArgs.locations,
                           Val(FindDepot(rbArgs.locations)),
                           rbArgs.trafficMultiplier, rbArgs.departureTime,
                           rbArgs.incidentLocation, 0, rbArgs.env)

Durations(routes) == [i \in 1..Len(routes) |-> routes[i].duration]

\* C7: invoked with a fixed delay d > 0 and producing at least one route, the
\* Route Builder adds d to the duration of the first route and to no other,
\* so the durations sum to d more than without the delay.
C7_DelayOnFirstRouteOnly ==
    (rbRoutes # NULL /\ rbArgs.fixedDelayMinutes > 0 /\ Len(Val(rbRoutes)) >= 1) =>
        /\ Len(Val(rbRoutes)) = Len(RbRoutesNoDelay)
        /\ Val(rbRoutes)[1].duration
              = RbRoutesNoDelay[1].duration + rbArgs.fixedDelayMinutes
        /\ \A r \in 2..Len(Val(rbRoutes)) :
              Val(rbRoutes)[r].duration = RbRoutesNoDelay[r].duration
        /\ SumSeq(Durations(Val(rbRoutes)))
              = SumSeq(Durations(RbRoutesNoDelay)) + rbArgs.fixedDelayMinutes

\* C7 witness: a delayed invocation returned at least two routes.
C7_Witness ==
    /\ rbRoutes # NULL
    /\ rbArgs.fixedDelayMinutes > 0
    /\ Len(Val(rbRoutes)) >= 2

IsActive == stored # NULL /\ Val(stored).isIncidentActive
IsNormal == stored # NULL /\ ~Val(stored).isIncidentActive

\* A step that serves a simulate request, from the API or from the page.
SimulateStep ==
    \/ Reroute
    \/ RerouteOther
    \/ (page # NULL /\ ~Val(page).isIncidentActive /\ HandleSimulateIncident)

\* C3: a simulate request on a run that is INCIDENT_ACTIVE is rejected with
\* a state error (status 400) and leaves the run unchanged.
C3_SimulateWhileActiveRejected ==
    [][(IsActive /\ SimulateStep) => (resp'.status = 400 /\ stored' = stored)]_vars

\* A step that serves a resolve request of the API.
ResolveStep == Resolve

\* C4: a resolve request on a run whose incident flag is not active, also one
\* that follows a successful resolve, is answered with the state error
\* "No active incident to resolve" and leaves the stored run unchanged.
C4_ResolveWithoutIncidentRejected ==
    [][(IsNormal /\ ResolveStep) =>
          /\ resp'.op = "resolve"
          /\ resp'.status = 400
          /\ resp'.msg = "No active incident to resolve"
          /\ stored' = stored]_vars

\* C4 witness: a resolve was rejected with the state error on a run whose
\* last successful request was a resolve of an incident.
C4_Witness ==
    /\ IsNormal
    /\ Val(hist).last = "simulate-resolve"
    /\ resp.op = "resolve"
    /\ resp.status = 400
    /\ resp.msg = "No active incident to resolve"

\* C5: after a successful simulate followed by a successful resolve, the
\* total distance and total duration of the run are the values it had right
\* before the simulate.
C5_ResolveRestoresTotals ==
    (stored # NULL /\ Val(hist).last = "simulate-resolve") =>
        Totals(Val(stored)) = Val(hist).beforeSimulate

\* C6: while a run is INCIDENT_ACTIVE its stored baseline is the route set it
\* had when it was last NORMAL, and the recorded originalDuration is the
\* total duration of that route set.
C6_BaselineIsPreIncident ==
    IsActive =>
        /\ Val(stored).originalRoutes = Val(hist).normalRoutes
        /\ Val(stored).incidentAnalysis # NULL
        /\ Val(Val(stored).incidentAnalysis).originalDuration
              = Some(Val(hist).normalDuration)

\* The run as a successful simulate request has just left it.
JustSimulated == stored # NULL /\ resp.op = "reroute" /\ resp.status = 200

\* What a route's duration exceeds its rounded driving and service time by.
AddedDelay(route) == route.duration - route.stops[Len(route.stops)].arrivalTime

\* C8: whatever the analysis service did (a value below 30, a value above
\* 300, no value, a failure), the delay a successful simulate records as
\* delayMinutes lies in 30..300, is what it added to the first route and to
\* no other route, and the run is INCIDENT_ACTIVE.
C8_AppliedDelayInRange ==
    JustSimulated =>
        /\ Val(stored).isIncidentActive
        /\ Val(Val(stored).incidentAnalysis).delayMinutes \in MinDelay..MaxDelay
        /\ \A r \in 1..Len(Val(stored).routes) :
              AddedDelay(Val(stored).routes[r])
                 = IF r = 1 THEN Val(Val(stored).incidentAnalysis).delayMinutes ELSE 0

\* C8 witness: a simulate succeeded for which the analysis service answered
\* with more than 300 minutes, on a run of at least two routes.
C8_Witness ==
    /\ JustSimulated
    /\ Val(hist).ai.kind = "answer"
    /\ Val(hist).ai.fixedDelayMinutes # NULL
    /\ Val(Val(hist).ai.fixedDelayMinutes) > MaxDelay
    /\ Len(Val(stored).routes) >= 2

Clamp(x, lo, hi) == IF x < lo THEN lo ELSE IF x > hi THEN hi ELSE x

\* C9: the delay applied by a simulate is the numeric answer of the analysis
\* service clamped into 30..300 (unchanged inside the range, 300 above it, 30
\* below it).
C9_AppliedDelayIsClampedAnswer ==
    (JustSimulated /\ Val(hist).ai.kind = "answer"
                   /\ Val(hist).ai.fixedDelayMinutes # NULL) =>
        Val(Val(stored).incidentAnalysis).delayMinutes
            = Clamp(Val(Val(hist).ai.fixedDelayMinutes), MinDelay, MaxDelay)

\* The run as a successful resolve request has just left it.
JustResolved == stored # NULL /\ resp.op = "resolve" /\ resp.status = 200

\* A route set without the path geometries.
WithoutGeometry(routes) == [r \in 1..Len(routes) |-> [routes[r] EXCEPT !.geometry = NULL]]

\* What the Route Builder produces for the run with multiplier 1.0 and no
\* fixed delay from the matrix (live or fallback) the stored routes came from.
NormalRoutesOf(optimization) ==
    runORToolsOptimization(
        Populate(storedVehicles, optimization.vehicles),
        Populate(storedLocations, optimization.locations),
        Val(FindDepot(Populate(storedLocations, optimization.locations))),
        2, optimization.departureTime, NULL, 0,
        [road |-> IF Len(optimization.routes) > 0 /\ optimization.routes[1].usingRealRoadData
                  THEN "live" ELSE "notOk",
         geo |-> <<GeoNoToken>>])

\* C10: after a successful resolve the run is NORMAL, has no stored baseline
\* and no incident location, and its routes and totals are those the Route
\* Builder produces with multiplier 1.0 and no fixed delay.
C10_ResolvedRunIsNormal ==
    JustResolved =>
        /\ ~Val(stored).isIncidentActive
        /\ Val(stored).originalRoutes = <<>>
        /\ Val(stored).incidentLocation = NULL
        /\ WithoutGeometry(Val(stored).routes) = NormalRoutesOf(Val(stored))
        /\ Val(stored).totalDistance = TotalDistance(NormalRoutesOf(Val(stored)))
        /\ Val(stored).totalDuration = TotalDuration(NormalRoutesOf(Val(stored)))

\* C10 witness: a resolve succeeded on a run whose incident routes carried a
\* delay and an incident location, and left at least two routes.
C10_Witness ==
    /\ JustResolved
    /\ Val(hist).last = "simulate-resolve"
    /\ Val(hist).beforeSimulate.totalDuration > 0
    /\ Len(Val(stored).routes) >= 2

\* ------------------------------------------------- claims C11 .. C20
RbLocationOf(id) == CHOOSE l \in Range(rbArgs.locations) : l.id = id
RbNonDepotIds == {l.id : l \in Range(rbArgs.locations)} \ {RbDepotId}
RbSlots == ExpandVehicles(rbArgs.vehicles)

\* C11: every route returned by the Route Builder starts with the depot, ends
\* with the depot and has at least one stop in between, none of them the
\* depot; a slot that received no stop contributes no route, so there are at
\* most as many routes as slots.
C11_DepotFirstAndLast ==
    rbRoutes # NULL =>
        /\ Len(Val(rbRoutes)) <= Len(RbSlots)
        /\ \A r \in 1..Len(Val(rbRoutes)) :
              LET stops == Val(rbRoutes)[r].stops
              IN /\ Len(stops) >= 3
                 /\ stops[1].locationId = RbDepotId
                 /\ stops[Len(stops)].locationId = RbDepotId
                 /\ \A i \in 2..(Len(stops) - 1) : stops[i].locationId # RbDepotId

\* C11 witness: the first slot (of the first vehicle record) received no stop
\* and the first route belongs to the second vehicle record.
C11_Witness ==
    /\ rbRoutes # NULL
    /\ Len(Val(rbRoutes)) >= 1
    /\ Len(Val(rbRoutes)) < Len(RbSlots)
    /\ Val(rbRoutes)[1].vehicle # RbSlots[1].id
    /\ Len(Val(rbRoutes)[1].stops) >= 4

\* C12: along the stops of every returned route the cumulative distance and
\* the cumulative time (arrivalTime) start at zero and never decrease.
C12_CumulativeNonDecreasing ==
    rbRoutes # NULL =>
        \A r \in 1..Len(Val(rbRoutes)) :
            LET stops == Val(rbRoutes)[r].stops
            IN /\ stops[1].cumulativeDistance = 0
               /\ stops[1].arrivalTime = 0
               /\ \A i \in 1..(Len(stops) - 1) :
                     /\ stops[i].cumulativeDistance <= stops[i + 1].cumulativeDistance
                     /\ stops[i].arrivalTime <= stops[i + 1].arrivalTime

\* C12 witness: a route of at least three non-depot stops whose last leg is
\* shorter in time than the leg before it.
C12_Witness ==
    /\ rbRoutes # NULL
    /\ \E r \in 1..Len(Val(rbRoutes)) :
          LET stops == Val(rbRoutes)[r].stops
              n == Len(stops)
          IN /\ n >= 5
             /\ stops[n].arrivalTime - stops[n - 1].arrivalTime
                   < stops[n - 1].arrivalTime - stops[n - 2].arrivalTime

\* Number of elements of a sequence that satisfy a test.
CountOf(seq, Test(_)) == Cardinality({i \in 1..Len(seq) : Test(seq[i])})

\* The capacity left in every slot when the Route Builder returns: of a slot
\* that serves a route, its capacity less the capacity the route consumed;
\* of a slot without a route, its capacity.
RbRemainingCapacities ==
    {SlotCapacity(rbArgs.vehicles, Val(rbRoutes)[r].vehicle) - Val(rbRoutes)[r].totalCapacity :
        r \in 1..Len(Val(rbRoutes))}
    \cup {RbSlots[k].capacity : k \in
            {j \in 1..Len(RbSlots) :
                CountOf(RbSlots, LAMBDA x : x.id = RbSlots[j].id)
                    > CountOf(Val(rbRoutes), LAMBDA x : x.vehicle = RbSlots[j].id)}}

RbUnassigned == {id \in RbNonDepotIds : StopCount(Val(rbRoutes), id) = 0}

\* C13: when the Route Builder returns, the demand of every non-depot
\* location that is in no route exceeds the capacity left in every slot,
\* used or unused.
C13_UnassignedFitsNowhere ==
    rbRoutes # NULL =>
        \A id \in RbUnassigned : \A c \in RbRemainingCapacities :
            OrElse(RbLocationOf(id).demand, 0) > c

\* C13 witness: one location demands more than the capacity of every vehicle
\* and is in no route, while all the other locations are routed.
C13_Witness ==
    /\ rbRoutes # NULL
    /\ Cardinality(RbUnassigned) = 1
    /\ \A id \in RbUnassigned : \A k \in 1..Len(RbSlots) :
          RbLocationOf(id).demand > RbSlots[k].capacity
    /\ Len(Val(rbRoutes)) >= 1

\* The distance matrix the invocation worked with.
RbDistanceMatrix ==
    IF rbArgs.env.road = "live"
    THEN [i \in 1..Len(rbArgs.locations) |-> [j \in 1..Len(rbArgs.locations) |->
             LiveMeters(rbArgs.locations[i], rbArgs.locations[j])]]
    ELSE calculateFallbackMatrix(rbArgs.locations).distanceMatrix

\* Position of a location in the location input.
RbIndexOf(id) == CHOOSE i \in 1..Len(rbArgs.locations) : rbArgs.locations[i].id = id

\* The locations assigned before stop i of route r was appended, and the
\* capacity the slot of route r had left at that moment.
RbAssignedBefore(r, i) ==
    {id \in RbNonDepotIds : StopCount(SubSeq(Val(rbRoutes), 1, r - 1), id) > 0}
    \cup {Val(rbRoutes)[r].stops[j].locationId : j \in 2..(i - 1)}
RbRemainingBefore(r, i) ==
    SlotCapacity(rbArgs.vehicles, Val(rbRoutes)[r].vehicle)
    - SumSeq([j \in 1..(i - 2) |-> Val(rbRoutes)[r].stops[j + 1].demand])
RbCandidates(r, i) ==
    {id \in RbNonDepotIds \ RbAssignedBefore(r, i) :
        OrElse(RbLocationOf(id).demand, 0) <= RbRemainingBefore(r, i)}

\* Distance from the position of the vehicle of route r before stop i.
RbDistanceFrom(r, i, id) ==
    RbDistanceMatrix[RbIndexOf(Val(rbRoutes)[r].stops[i - 1].locationId)][RbIndexOf(id)]

\* C14: every non-depot stop of every route is, among the locations not yet
\* assigned whose demand fits the capacity the slot has left, one with the
\* smallest matrix distance from the previous stop, and the first of those
\* in location input order.
C14_NearestFirstInInputOrder ==
    rbRoutes # NULL =>
        \A r \in 1..Len(Val(rbRoutes)) :
            \A i \in 2..(Len(Val(rbRoutes)[r].stops) - 1) :
                LET chosen == Val(rbRoutes)[r].stops[i].locationId
                IN /\ chosen \in RbCandidates(r, i)
                   /\ \A id \in RbCandidates(r, i) :
                         /\ RbDistanceFrom(r, i, chosen) <= RbDistanceFrom(r, i, id)
                         /\ RbDistanceFrom(r, i, chosen) = RbDistanceFrom(r, i, id)
                               => RbIndexOf(chosen) <= RbIndexOf(id)

\* C14 witness: a stop was chosen among two equidistant candidates, and it is
\* the one with the larger id that comes first in the input.
C14_Witness ==
    /\ rbRoutes # NULL
    /\ \E r \in 1..Len(Val(rbRoutes)) :
          \E i \in 2..(Len(Val(rbRoutes)[r].stops) - 1) :
             \E id \in RbCandidates(r, i) :
                /\ id < Val(rbRoutes)[r].stops[i].locationId
                /\ RbDistanceFrom(r, i, id)
                      = RbDistanceFrom(r, i, Val(rbRoutes)[r].stops[i].locationId)

\* Great-circle distance times 1.4, in metres.
HaversineTimesRoadFactor(a, b) ==
    IF a.id = b.id THEN 0
    ELSE (14 * calculateDistance(a.latitude, a.longitude, b.latitude, b.longitude)) \div 10

\* C15: when the matrix service is unavailable (no token, transport error,
\* non-success status, response without the matrices) the Route Builder
\* still returns, every leg of every route is the great-circle distance
\* times 1.4, and every route is flagged as not using live road data.
C15_FallbackWhenUnavailable ==
    (rbRoutes # NULL /\ rbArgs.env.road # "live") =>
        \A r \in 1..Len(Val(rbRoutes)) :
            LET stops == Val(rbRoutes)[r].stops
            IN /\ ~Val(rbRoutes)[r].usingRealRoadData
               /\ \A i \in 2..Len(stops) :
                     stops[i].distanceFromPrev
                        = ToFixed2(HaversineTimesRoadFactor(
                                       RbLocationOf(stops[i - 1].locationId),
                                       RbLocationOf(stops[i].locationId)))
               /\ Val(rbRoutes)[r].distance
                     = SumSeq([i \in 1..(Len(stops) - 1) |->
                                  HaversineTimesRoadFactor(
                                      RbLocationOf(stops[i].locationId),
                                      RbLocationOf(stops[i + 1].locationId))])

\* C15 witness: the service answered with a non-success status and routes
\* were returned.
C15_Witness ==
    /\ rbRoutes # NULL
    /\ rbArgs.env.road = "notOk"
    /\ Len(Val(rbRoutes)) >= 2

\* The request and response of the last step, when it was a create or a
\* simulate request.
LastBody == Val(resp.body)

\* A create request without a depot among its locations, with an empty
\* vehicle or location set, or above the size caps.
InvalidCreate(body) ==
    \/ Len(body.vehicleIds.known) + body.vehicleIds.unknown = 0
    \/ Len(body.locationIds.known) + body.locationIds.unknown = 0
    \/ Len(body.locationIds.known) + body.locationIds.unknown > MaxLocations
    \/ Len(body.vehicleIds.known) + body.vehicleIds.unknown > MaxVehicles
    \/ \A l \in Range(storedLocations) :
          l.id \in Range(body.locationIds.known) => ~l.isDepot

\* C16: a create request without a depot, with an empty vehicle or location
\* set, or above the size caps is answered with a validation error (400),
\* the Route Builder (and with it the matrix service) is not invoked, and no
\* run is stored.
C16_InvalidCreateRejected ==
    (resp.op = "create" /\ InvalidCreate(LastBody)) =>
        /\ resp.status = 400
        /\ resp.built = NULL
        /\ stored = NULL

\* C16 witness: a request naming one stored vehicle and MaxVehicles more was
\* rejected for its size.
C16_Witness ==
    /\ resp.op = "create"
    /\ Len(LastBody.vehicleIds.known) > 0
    /\ Len(LastBody.vehicleIds.known) + LastBody.vehicleIds.unknown > MaxVehicles
    /\ resp.status = 400
    /\ resp.msg = "Maximum 20 vehicles allowed"
    /\ stored = NULL

\* Midpoint of the depot and the first stop of a route.
DepotFirstStopMidpoint(route) ==
    [latitude |-> (route.stops[1].latitude + route.stops[2].latitude) \div 2,
     longitude |-> (route.stops[1].longitude + route.stops[2].longitude) \div 2]

\* C18: after a successful simulate the incident location is the point the
\* caller supplied; without one it is the midpoint of the depot and the
\* first stop of the route the affected-route index designates among the
\* routes the run had before the simulate.
C18_IncidentLocationChoice ==
    (JustSimulated /\ LastBody.affectedRouteIndex # NULL
                   /\ Val(LastBody.affectedRouteIndex) < Len(Val(stored).originalRoutes)) =>
        Val(stored).incidentLocation
            = IF LastBody.incidentLocation # NULL
              THEN LastBody.incidentLocation
              ELSE Some(DepotFirstStopMidpoint(
                       Val(stored).originalRoutes[Val(LastBody.affectedRouteIndex) + 1]))

\* C19: a simulate request without an incident type or without an
\* affected-route index is rejected and leaves the run as it was.
C19_SimulateWithoutTypeRejected ==
    [][(IsNormal /\ Reroute /\ resp'.body # NULL
           /\ (Val(resp'.body).incidentType = NULL \/ Val(resp'.body).affectedRouteIndex = NULL))
          => (resp'.status >= 400 /\ stored' = stored)]_vars

\* The stored incident metadata flags "no alternative route".
FlagsNoAlternativeRoute(optimization) ==
    /\ optimization.incidentAnalysis # NULL
    /\ "noAlternativeRoute" \in DOMAIN Val(optimization.incidentAnalysis)
    /\ Val(optimization.incidentAnalysis).noAlternativeRoute

\* C20: after a successful simulate the metadata of the run flags "no
\* alternative route" exactly when the path of the new first route is the
\* path of the baseline's first route, and the first route carries the fixed
\* delay either way.
C20_NoAlternativeRouteFlag ==
    (JustSimulated /\ Len(Val(stored).routes) > 0 /\ Len(Val(stored).originalRoutes) > 0) =>
        /\ FlagsNoAlternativeRoute(Val(stored))
              <=> (Coordinates(Val(stored).routes[1])
                      = Coordinates(Val(stored).originalRoutes[1]))
        /\ AddedDelay(Val(stored).routes[1])
              = Val(Val(stored).incidentAnalysis).delayMinutes

\* C17: when the Route Builder returns no route to create, simulate or
\* resolve, the request is answered with an optimization failure (500, not a
\* validation error), and no run is ever stored with an empty route set.
C17_ZeroRoutesIsFailure ==
    /\ resp.built = Some(0) => resp.status = 500
    /\ stored # NULL => Len(Val(stored).routes) > 0

\* ------------------------------------------------- claims C21 .. C30
\* The parts of a stored run belong together: the totals are those of the
\* route set, and a baseline and an incident location are stored exactly
\* while the incident flag is set.
WrittenTogether(optimization) ==
    /\ optimization.totalDistance = TotalDistance(optimization.routes)
    /\ optimization.totalDuration = TotalDuration(optimization.routes)
    /\ optimization.isIncidentActive
          <=> (optimization.originalRoutes # <<>> /\ optimization.incidentLocation # NULL)
    /\ ~optimization.isIncidentActive
          <=> (optimization.originalRoutes = <<>> /\ optimization.incidentLocation = NULL)

\* C21: a simulate or resolve request that fails (the recomputation or the
\* save fails) leaves the stored run exactly as it was, and in every stored
\* state the route set, the totals, the incident flag, the incident location
\* and the baseline come from the same request.
C21_RunReplacedAtomically ==
    [][/\ (resp'.op \in {"reroute", "resolve"} /\ resp'.status = 500) => stored' = stored
       /\ stored' # NULL => WrittenTogether(Val(stored'))]_vars

\* C21 witness: a simulate failed on an INCIDENT_ACTIVE run after the Route
\* Builder had returned new routes.
C21_Witness ==
    /\ IsActive
    /\ resp.op = "reroute"
    /\ resp.status = 500
    /\ resp.built # NULL

\* The duration matrix the invocation worked with, before the multiplier
\* (half-minutes).
RbDurationMatrix ==
    IF rbArgs.env.road = "live"
    THEN [i \in 1..Len(rbArgs.locations) |-> [j \in 1..Len(rbArgs.locations) |->
             LiveSeconds(rbArgs.locations[i], rbArgs.locations[j]) \div 30]]
    ELSE calculateFallbackMatrix(rbArgs.locations).durationMatrix

\* Matrix duration (half-minutes) of the leg that ends at stop i of a route.
RbLegHalfMinutes(route, i) ==
    RbDurationMatrix[RbIndexOf(route.stops[i - 1].locationId)]
                    [RbIndexOf(route.stops[i].locationId)]

\* Travel time, in quarter-minutes, of the legs of a route up to stop i: the
\* matrix durations times the multiplier (in halves).
RECURSIVE RbTravelQuarters(_, _)
RbTravelQuarters(route, i) ==
    IF i <= 1 THEN 0
    ELSE RbTravelQuarters(route, i - 1) + RbLegHalfMinutes(route, i) * rbArgs.trafficMultiplier

\* The fixed delay a route of the invocation carries.
RbDelayOf(r) == IF r = 1 /\ rbArgs.fixedDelayMinutes > 0 THEN rbArgs.fixedDelayMinutes ELSE 0

\* C22: every produced route's duration before the fixed delay is the rounded
\* sum of the multiplier-adjusted matrix durations of its legs plus 15 minutes
\* for each stop other than the starting depot and the closing depot stop.
C22_DurationIsLegsPlusService ==
    rbRoutes # NULL =>
        \A r \in 1..Len(Val(rbRoutes)) :
            LET route == Val(rbRoutes)[r]
            IN route.duration - RbDelayOf(r)
                  = RoundQuarter(RbTravelQuarters(route, Len(route.stops))
                                 + 15 * 4 * (Len(route.stops) - 2))

\* C22 witness: a route with two deliveries, built under a multiplier above
\* 1.0 and carrying a fixed delay.
C22_Witness ==
    /\ rbRoutes # NULL
    /\ rbArgs.trafficMultiplier > 2
    /\ rbArgs.fixedDelayMinutes > 0
    /\ Len(Val(rbRoutes)) >= 1
    /\ Len(Val(rbRoutes)[1].stops) = 4

\* The 12-hour rendering of a minute of the day.
TwelveHourClock(minuteOfDay) ==
    LET hour == minuteOfDay \div 60
        minute == minuteOfDay % 60
    IN (IF hour = 0 THEN "12" ELSE IF hour <= 12 THEN ToString(hour) ELSE ToString(hour - 12))
       \o ":" \o (IF minute < 10 THEN "0" ELSE "") \o ToString(minute)
       \o (IF hour < 12 THEN " AM" ELSE " PM")

RbDepartureMinute == rbArgs.departureTime.hour * 60 + rbArgs.departureTime.minute

\* C23: every stop's arrival estimate is the 12-hour AM/PM rendering of
\* (departure minute of the day + rounded cumulative time) modulo 1440, with
\* hour 0 shown as 12 AM, hour 12 as 12 PM and two-digit minutes; the first
\* stop's estimate is the departure time.
C23_EtaIsTwelveHourClock ==
    rbRoutes # NULL =>
        \A r \in 1..Len(Val(rbRoutes)) :
            LET stops == Val(rbRoutes)[r].stops
            IN /\ \A i \in 1..Len(stops) :
                     stops[i].eta = TwelveHourClock((RbDepartureMinute + stops[i].arrivalTime) % 1440)
               /\ stops[1].eta = TwelveHourClock(RbDepartureMinute)

\* C23 witness: a departure shortly before midnight whose route has a stop
\* estimated after midnight, in the hour shown as 12 AM with a one-digit
\* minute.
C23_Witness ==
    /\ rbRoutes # NULL
    /\ rbArgs.departureTime = [hour |-> 23, minute |-> 30]
    /\ \E r \in 1..Len(Val(rbRoutes)) : \E i \in 1..Len(Val(rbRoutes)[r].stops) :
          LET minuteOfDay == (RbDepartureMinute + Val(rbRoutes)[r].stops[i].arrivalTime) % 1440
          IN minuteOfDay < 10

\* The routes of the same invocation under the multiplier 1.0.
RbRoutesUnitMultiplier ==
    runORToolsOptimization(rbArgs.vehicles, rbArgs.locations,
                           Val(FindDepot(rbArgs.locations)),
                           2, rbArgs.departureTime,
                           rbArgs.incidentLocation, rbArgs.fixedDelayMinutes, rbArgs.env)

\* Vehicle, stop sequence and distances of a route.
RouteShape(route) ==
    [vehicle |-> route.vehicle,
     distance |-> route.distance,
     stops |-> [i \in 1..Len(route.stops) |->
                   [locationId |-> route.stops[i].locationId,
                    order |-> route.stops[i].order,
                    distanceFromPrev |-> route.stops[i].distanceFromPrev,
                    cumulativeDistance |-> route.stops[i].cumulativeDistance]]]

\* C24: for a multiplier m >= 1 the Route Builder produces the same vehicles,
\* stop assignment, stop order and distances as for m = 1; every stop's
\* arrival time is the rounded sum of m times the matrix durations of the legs
\* so far plus the unscaled 15 minutes of each delivery before it.
C24_MultiplierScalesTravelOnly ==
    rbRoutes # NULL =>
        /\ rbArgs.trafficMultiplier > 2 =>
              [r \in 1..Len(Val(rbRoutes)) |-> RouteShape(Val(rbRoutes)[r])]
                 = LET unit == RbRoutesUnitMultiplier
                   IN [r \in 1..Len(unit) |-> RouteShape(unit[r])]
        /\ \A r \in 1..Len(Val(rbRoutes)) :
              LET route == Val(rbRoutes)[r]
              IN \A i \in 1..Len(route.stops) :
                    route.stops[i].arrivalTime
                       = RoundQuarter(RbTravelQuarters(route, i)
                                      + 15 * 4 * (IF i = Len(route.stops) THEN i - 2 ELSE i - 1))

\* C24 witness: routes built under the multiplier 1.5 whose durations differ
\* from those under 1.0.
C24_Witness ==
    /\ rbRoutes # NULL
    /\ rbArgs.trafficMultiplier = 3
    /\ Len(Val(rbRoutes)) >= 1
    /\ Durations(Val(rbRoutes)) # Durations(RbRoutesUnitMultiplier)

\* Number of routes attributed to the vehicle record v.
RbRoutesOf(v) == Cardinality({r \in 1..Len(Val(rbRoutes)) : Val(rbRoutes)[r].vehicle = v.id})

\* C25: each vehicle record contributes exactly count slots, in input order,
\* so no vehicle record has more routes than its count and the number of
\* routes is at most the sum of the counts.
C25_CountSlotsPerVehicle ==
    rbRoutes # NULL =>
        /\ RbSlots = [k \in 1..SumSeq([i \in 1..Len(rbArgs.vehicles) |-> rbArgs.vehicles[i].count]) |->
                         LET i == CHOOSE i \in 1..Len(rbArgs.vehicles) :
                                     /\ k > SumSeq([j \in 1..(i - 1) |-> rbArgs.vehicles[j].count])
                                     /\ k <= SumSeq([j \in 1..i |-> rbArgs.vehicles[j].count])
                         IN [id |-> rbArgs.vehicles[i].id,
                             capacity |-> rbArgs.vehicles[i].capacity]]
        /\ \A i \in 1..Len(rbArgs.vehicles) :
              RbRoutesOf(rbArgs.vehicles[i]) <= rbArgs.vehicles[i].count
        /\ Len(Val(rbRoutes))
              <= SumSeq([i \in 1..Len(rbArgs.vehicles) |-> rbArgs.vehicles[i].count])

\* For records with a count of at least one the slots are as C25 says.
RbCountsPositive == \A i \in 1..Len(rbArgs.vehicles) : rbArgs.vehicles[i].count >= 1
CountSlotsWhenPositive == RbCountsPositive => C25_CountSlotsPerVehicle

\* The call of the Geometry Provider has returned after a first request that
\* carried the exclusion and got one of the given answers.
ExclusionRequestGot(answers) ==
    /\ geoCall # NULL
    /\ Val(geoCall).done
    /\ Val(geoCall).requests # <<>>
    /\ Val(geoCall).requests[1].exclude
    /\ Val(geoCall).geo.first \in answers

\* The provider sent exactly one further request, without the exclusion,
\* returned its path if it succeeded, and returned null only if it failed.
RetriedOnceWithoutExclusion ==
    /\ Len(Val(geoCall).requests) = 2
    /\ ~Val(geoCall).requests[2].exclude
    /\ Val(geoCall).geo.second = "path"
          => Val(geoCall).result = Some(Path(Val(geoCall).stops, FALSE))
    /\ Val(geoCall).result = NULL => Val(geoCall).geo.second # "path"

\* C26: when an avoid point is supplied and the request with the exclusion
\* fails, by a non-success status or by a transport error, the Geometry
\* Provider sends exactly one further request without the exclusion, returns
\* that path if it succeeds and null only after the second request failed.
C26_RetryOnceWithoutExclusion ==
    ExclusionRequestGot({"notOk", "error"}) => RetriedOnceWithoutExclusion

\* After a non-success status the retry is as C26 says.
RetryAfterNonSuccessStatus ==
    ExclusionRequestGot({"notOk"}) => RetriedOnceWithoutExclusion

\* The stored location with an id.
StoredLocation(id) == CHOOSE l \in Range(storedLocations) : l.id = id

\* Matrix duration (half-minutes) between two stored locations, from the
\* live matrix or from the fallback matrix.
HalfMinutesBetween(a, b, live) ==
    IF live THEN LiveSeconds(a, b) \div 30
    ELSE (FallbackRoadDist(a, b) * 60 * 2) \div (SPEED_KMH * 1000)

\* Duration of a stored route's own stop sequence under multiplier 1.0 and
\* without a fixed delay: travel plus 15 minutes per delivery.
RECURSIVE NormalQuarters(_, _)
NormalQuarters(route, i) ==
    IF i <= 1 THEN 0
    ELSE NormalQuarters(route, i - 1)
         + 2 * HalfMinutesBetween(StoredLocation(route.stops[i - 1].locationId),
                                  StoredLocation(route.stops[i].locationId),
                                  route.usingRealRoadData)
         + (IF i < Len(route.stops) THEN 15 * 4 ELSE 0)
NormalDuration(route) == RoundQuarter(NormalQuarters(route, Len(route.stops)))

\* C27: whenever a run is NORMAL, right after any create included, every
\* route's duration is the one computed with multiplier 1.0 and no fixed
\* delay, and the run total is their sum.
C27_NormalRunHasNormalDurations ==
    IsNormal =>
        /\ \A r \in 1..Len(Val(stored).routes) :
              Val(stored).routes[r].duration = NormalDuration(Val(stored).routes[r])
        /\ Val(stored).totalDuration
              = SumSeq([r \in 1..Len(Val(stored).routes) |->
                           NormalDuration(Val(stored).routes[r])])

\* A NORMAL run that a create without incident fields or a resolve left has
\* normal durations.
NormalAfterPlainCreateOrResolve ==
    (IsNormal /\ (Val(stored).incidentAnalysis = NULL \/ JustResolved))
        => C27_NormalRunHasNormalDurations

\* Vehicle, stop sequence, distances and arrival estimates of the routes of a
\* run (everything but the durations and the path geometry).
RoutePlan(routes) ==
    [r \in 1..Len(routes) |->
        [shape |-> RouteShape(routes[r]),
         arrivals |-> [i \in 1..Len(routes[r].stops) |->
                          [arrivalTime |-> routes[r].stops[i].arrivalTime,
                           eta |-> routes[r].stops[i].eta]]]]

\* A successful simulate on a NORMAL run with normal durations, served from
\* the same matrix (live or fallback) the run's routes were computed from.
SimulateOnSameMatrix ==
    /\ IsNormal
    /\ C27_NormalRunHasNormalDurations
    /\ resp'.op = "reroute"
    /\ resp'.status = 200
    /\ Len(Val(stored).routes) > 0
    /\ Len(Val(stored').routes) > 0
    /\ Val(stored').routes[1].usingRealRoadData = Val(stored).routes[1].usingRealRoadData

\* C28: with an unchanged matrix, the routes computed by simulate have the
\* vehicles, stop sequences, distances and per-stop arrival estimates of the
\* pre-incident routes, and the run's total duration is the pre-incident
\* total plus the fixed delay.
C28_SimulateKeepsThePlan ==
    [][SimulateOnSameMatrix =>
          /\ RoutePlan(Val(stored').routes) = RoutePlan(Val(stored).routes)
          /\ Val(stored').totalDuration
                = Val(stored).totalDuration + Val(Val(stored').incidentAnalysis).delayMinutes]_vars

\* The run lists its vehicles and its locations in storage order.
ListedInStorageOrder(optimization) ==
    /\ Populate(storedVehicles, optimization.vehicles)
          = SelectSeq(storedVehicles, LAMBDA v : v.id \in Range(optimization.vehicles))
    /\ Populate(storedLocations, optimization.locations)
          = SelectSeq(storedLocations, LAMBDA l : l.id \in Range(optimization.locations))

\* For a run that lists its vehicles and locations in storage order the
\* simulate keeps the plan as C28 says.
SimulateKeepsThePlanInStorageOrder ==
    [][(SimulateOnSameMatrix /\ ListedInStorageOrder(Val(stored))) =>
          /\ RoutePlan(Val(stored').routes) = RoutePlan(Val(stored).routes)
          /\ Val(stored').totalDuration
                = Val(stored).totalDuration + Val(Val(stored').incidentAnalysis).delayMinutes]_vars

\* Both resolve requests have been answered.
BothAnswered == procs # NULL /\ \A p \in Requests : Val(procs)[p].pc = "done"

\* The request was answered with the no-active-incident state error.
NoActiveIncidentError(p) ==
    Val(procs)[p].status = 400 /\ Val(procs)[p].msg = "No active incident to resolve"

\* C29: of two resolve requests issued concurrently against the same
\* INCIDENT_ACTIVE run, in every interleaving of their read, recompute and
\* save steps exactly one succeeds and the other receives the
\* no-active-incident state error.
C29_ExactlyOneResolveSucceeds ==
    BothAnswered =>
        \E p \in Requests :
            /\ Val(procs)[p].status = 200
            /\ \A q \in Requests \ {p} : NoActiveIncidentError(q)

\* C29, amended: a request receives the no-active-incident state error
\* exactly when it read the run after the other request's save; a request
\* that read it before passes the flag test and succeeds or, when its write
\* is refused as stale, fails with a server error; once both are answered at
\* least one has succeeded and the run is NORMAL.
C29_AtLeastOneResolveSucceeds ==
    procs # NULL =>
        /\ \A p \in Requests :
              Val(procs)[p].pc = "done" =>
                  /\ NoActiveIncidentError(p) <=> ~Val(Val(procs)[p].optimization).isIncidentActive
                  /\ Val(Val(procs)[p].optimization).isIncidentActive
                        => Val(procs)[p].status \in {200, 500}
                  /\ Val(procs)[p].status = 500
                        => \E q \in Requests \ {p} : Val(procs)[q].status = 200
        /\ BothAnswered =>
              /\ \E p \in Requests : Val(procs)[p].status = 200
              /\ IsNormal
              /\ WrittenTogether(Val(stored))

\* C29 witness: both requests read the run while it was INCIDENT_ACTIVE and
\* both succeeded.
C29_Witness ==
    /\ BothAnswered
    /\ \A p \in Requests :
          /\ Val(Val(procs)[p].optimization).isIncidentActive
          /\ Val(procs)[p].status = 200

\* A request read the run after the other's save and was rejected.
LateReadRejected ==
    /\ BothAnswered
    /\ \E p \in Requests : NoActiveIncidentError(p)

\* Number of locations selected so far by the loops: those of the routes
\* pushed and those of the slot in progress.
SelectedSoFar ==
    SumSeq([r \in 1..Len(Val(sel).routes) |-> Len(Val(sel).routes[r].stops) - 2])
    + Len(Val(sel).picked)

\* C30: every iteration of a slot's selection loop either assigns a location
\* that was not assigned before or ends the loop, at most as many stops are
\* selected in total as there are non-depot locations, and the Route Builder
\* terminates.
C30_RouteBuilderTerminates ==
    /\ [][(sel # NULL /\ Val(sel).pc = "while") =>
             \/ Val(sel').pc = "close" /\ Val(sel').assigned = Val(sel).assigned
             \/ /\ Val(sel').pc = "while"
                /\ \E l \in Range(LoopNonDepot(Val(sel))) :
                      /\ l.id \notin Val(sel).assigned
                      /\ Val(sel').assigned = Val(sel).assigned \cup {l.id}
                      /\ Val(sel').picked = Append(Val(sel).picked, l)]_vars
    /\ [](sel # NULL => SelectedSoFar <= Len(LoopNonDepot(Val(sel))))
    /\ <>(sel # NULL /\ Val(sel).pc = "done")

\* C30 witness: the loops are over after two routes, with every location
\* selected.
C30_Witness ==
    /\ sel # NULL
    /\ Val(sel).pc = "done"
    /\ Len(Val(sel).routes) = 2
    /\ SelectedSoFar = Len(LoopNonDepot(Val(sel)))

\* When the loops are over, the routes pushed are those the Route Builder
\* returns.
LoopsAgreeWithRouteBuilder ==
    (sel # NULL /\ Val(sel).pc = "done") =>
        LET routes == runORToolsOptimization(Val(sel).vehicles, Val(sel).locations,
                                             LoopDepot(Val(sel)), 2, DefaultDeparture, NULL, 0,
                                             [road |-> Val(sel).road, geo |-> <<GeoNoToken>>])
        IN [r \in 1..Len(Val(sel).routes) |->
               [vehicle |-> Val(sel).routes[r].vehicle,
                ids |-> [i \in 1..Len(Val(sel).routes[r].stops) |->
                            Val(sel).routes[r].stops[i].locationId]]]
           = [r \in 1..Len(routes) |->
                 [vehicle |-> routes[r].vehicle,
                  ids |-> [i \in 1..Len(routes[r].stops) |-> routes[r].stops[i].locationId]]]
====
